---- MODULE Spec2Model ----
(***************************************************************************)
(* Model of scripts/fetch_legevakter.py: the two-provider geocoding and    *)
(* cross-validation pipeline (GeoNorge = Provider A, Nominatim =           *)
(* Provider B).                                                            *)
(*                                                                         *)
(* Specifications                                                          *)
(*  - Spec: build_geojson_and_report on lists of valid rows.               *)
(*  - RunSpec: run, from the input file to the exit code: reading the      *)
(*    sheet, the same pipeline, and the two writes.                        *)
(*  - GeocodeSpec: the same pipeline on one row for whose street Provider  *)
(*    A holds several entries.                                             *)
(*  - CompareSpec: normalize_for_compare on strings and on its results.    *)
(*  - RequestSpec: one call of request_json.                              *)
(*  - QuerySpec: geonorge_queries and nominatim_queries for one row.       *)
(*  - SimilaritySpec: score_geonorge_candidate on two addresses, each in    *)
(*    turn the row's and the candidate's.                                   *)
(*                                                                         *)
(* Representation                                                          *)
(*  - A Python str is a sequence of one-character tokens, e.g.             *)
(*    <<"S","g","t"," ","5">>; the token "nbsp" stands for U+00A0.         *)
(*  - A string field that is absent from a provider's JSON (None) is the   *)
(*    empty string: every use in the source is `x or ""`,                  *)
(*    normalize_text(x) or sanitize_postnummer(x), which treat both alike. *)
(*  - An optional value (dict | None) is <<>> for None and <<v>> else.     *)
(*  - Time is counted in units of 0.01 s; distances and thresholds in      *)
(*    units of 0.5 m, so that a float threshold with a fractional part     *)
(*    exists and int() truncates it.                                       *)
(*  - A score (float) is the exact fraction num/den.                       *)
(***************************************************************************)
EXTENDS Integers, Sequences, FiniteSets, TLC

(***************************************************************************)
(* Characters                                                              *)
(***************************************************************************)
Digits == {"0", "1", "2", "3", "4", "5", "6", "7", "8", "9"}

LowerLetters ==
    {"a", "b", "c", "d", "e", "f", "g", "h", "i", "j", "k", "l", "m",
     "n", "o", "p", "q", "r", "s", "t", "u", "v", "w", "x", "y", "z"}

UpperLetters ==
    {"A", "B", "C", "D", "E", "F", "G", "H", "I", "J", "K", "L", "M",
     "N", "O", "P", "Q", "R", "S", "T", "U", "V", "W", "X", "Y", "Z"}

\* the non-ASCII letters of the model, named: ae-ligature, o-slash, a-ring, e-acute
NordicLower == {"aelig", "oslash", "aring"}

NordicUpper == {"AElig", "Oslash", "Aring"}

\* \s of the re module on str: the blank and the no-break space of the model
IsSpace(ch) == ch \in {" ", "nbsp"}

\* str.isdigit
IsDigit(ch) == ch \in Digits

\* \w of the re module on str
IsWord(ch) ==
    ch \in Digits \cup LowerLetters \cup UpperLetters \cup NordicLower
           \cup NordicUpper \cup {"eacute", "_"}

\* str.lower, one character
LowerChar(ch) ==
    CASE ch = "A" -> "a" [] ch = "B" -> "b" [] ch = "C" -> "c" [] ch = "D" -> "d"
      [] ch = "E" -> "e" [] ch = "F" -> "f" [] ch = "G" -> "g" [] ch = "H" -> "h"
      [] ch = "I" -> "i" [] ch = "J" -> "j" [] ch = "K" -> "k" [] ch = "L" -> "l"
      [] ch = "M" -> "m" [] ch = "N" -> "n" [] ch = "O" -> "o" [] ch = "P" -> "p"
      [] ch = "Q" -> "q" [] ch = "R" -> "r" [] ch = "S" -> "s" [] ch = "T" -> "t"
      [] ch = "U" -> "u" [] ch = "V" -> "v" [] ch = "W" -> "w" [] ch = "X" -> "x"
      [] ch = "Y" -> "y" [] ch = "Z" -> "z" [] ch = "AElig" -> "aelig"
      [] ch = "Oslash" -> "oslash" [] ch = "Aring" -> "aring" [] OTHER -> ch

\* str.lower
lower(s) == [i \in 1..Len(s) |-> LowerChar(s[i])]

(***************************************************************************)
(* Generic string helpers (Python built-ins)                               *)
(***************************************************************************)
\* s[lo:hi] with 1-based inclusive bounds
Slice(s, lo, hi) == IF hi < lo THEN <<>> ELSE SubSeq(s, lo, hi)

\* str.strip(chars) / str.rstrip(chars)
RECURSIVE lstrip(_, _)
lstrip(s, chars) ==
    IF s # <<>> /\ Head(s) \in chars THEN lstrip(Tail(s), chars) ELSE s

RECURSIVE rstrip(_, _)
rstrip(s, chars) ==
    IF s # <<>> /\ s[Len(s)] \in chars
    THEN rstrip(SubSeq(s, 1, Len(s) - 1), chars)
    ELSE s

strip(s, chars) == rstrip(lstrip(s, chars), chars)

\* sub occurs in s at position i (1-based)
OccursAt(s, sub, i) ==
    /\ i >= 1
    /\ i + Len(sub) - 1 <= Len(s)
    /\ \A k \in 1..Len(sub) : s[i + k - 1] = sub[k]

\* `sub in s`
Contains(s, sub) == \E i \in 1..(Len(s) + 1) : OccursAt(s, sub, i)

\* " ".join(parts) with an arbitrary separator
RECURSIVE join(_, _)
join(sep, parts) ==
    IF parts = <<>> THEN <<>>
    ELSE IF Len(parts) = 1 THEN parts[1]
    ELSE parts[1] \o sep \o join(sep, Tail(parts))

\* re.split(r"[...]", s) for a character class: the pieces between separators
RECURSIVE SplitOn(_, _, _)
SplitOn(s, seps, cur) ==
    IF s = <<>> THEN <<cur>>
    ELSE IF Head(s) \in seps THEN <<cur>> \o SplitOn(Tail(s), seps, <<>>)
    ELSE SplitOn(Tail(s), seps, Append(cur, Head(s)))

(***************************************************************************)
(* normalize_text, sanitize_postnummer                                     *)
(***************************************************************************)
\* re.sub(r"\s+", " ", text): every run of white space becomes one blank
RECURSIVE CollapseSpaces(_, _)
CollapseSpaces(s, inRun) ==
    IF s = <<>> THEN <<>>
    ELSE IF IsSpace(Head(s))
         THEN (IF inRun THEN <<>> ELSE <<" ">>) \o CollapseSpaces(Tail(s), TRUE)
         ELSE <<Head(s)>> \o CollapseSpaces(Tail(s), FALSE)

normalize_text(value) == strip(CollapseSpaces(value, FALSE), {" ", "nbsp"})

\* str.zfill(4) of a digit string shorter than 4
RECURSIVE zfill(_, _)
zfill(s, width) == IF Len(s) >= width THEN s ELSE zfill(<<"0">> \o s, width)

sanitize_postnummer(value) ==
    LET raw == normalize_text(value)
        digits == SelectSeq(raw, IsDigit)
    IN  IF digits = <<>> THEN raw
        ELSE IF Len(digits) >= 4 THEN SubSeq(digits, 1, 4)
        ELSE zfill(digits, 4)

(***************************************************************************)
(* Regular-expression substitution with literal alternatives               *)
(***************************************************************************)
\* \b before position i (1-based; i = Len(s) + 1 is the end of the string)
WordBoundary(s, i) ==
    LET before == i > 1 /\ IsWord(s[i - 1])
        after == i <= Len(s) /\ IsWord(s[i])
    IN  before # after

\* the literal alt matches s at i between two \b (flags=re.IGNORECASE if ic)
MatchesAt(s, alt, i, ic) ==
    /\ OccursAt(IF ic THEN lower(s) ELSE s, alt, i)
    /\ WordBoundary(s, i)
    /\ WordBoundary(s, i + Len(alt))

\* the alternatives (tried in order, as the regex engine backtracks) that match at i
MatchingAlts(s, alts, i, ic) ==
    SelectSeq(alts, LAMBDA alt : MatchesAt(s, alt, i, ic))

\* re.sub(r"\b(alt1|alt2|...)\b", rep, s): leftmost, non-overlapping matches
RECURSIVE ReSubFrom(_, _, _, _, _)
ReSubFrom(s, alts, rep, ic, i) ==
    IF i > Len(s) THEN <<>>
    ELSE LET m == MatchingAlts(s, alts, i, ic)
         IN  IF m # <<>>
             THEN rep \o ReSubFrom(s, alts, rep, ic, i + Len(m[1]))
             ELSE <<s[i]>> \o ReSubFrom(s, alts, rep, ic, i + 1)

ReSub(s, alts, rep, ic) == ReSubFrom(s, alts, rep, ic, 1)

(***************************************************************************)
(* normalize_for_compare                                                   *)
(***************************************************************************)
\* .replace("ae-ligature", "ae").replace("o-slash", "o").replace("a-ring", "a")
RECURSIVE FoldVowels(_)
FoldVowels(s) ==
    IF s = <<>> THEN <<>>
    ELSE (CASE Head(s) = "aelig" -> <<"a", "e">>
            [] Head(s) = "oslash" -> <<"o">>
            [] Head(s) = "aring" -> <<"a">>
            [] OTHER -> <<Head(s)>>) \o FoldVowels(Tail(s))

\* unicodedata.normalize("NFKD", text) without the combining marks
StripDiacritics(s) ==
    [i \in 1..Len(s) |-> IF s[i] = "eacute" THEN "e" ELSE s[i]]

\* re.sub(r"[^a-z0-9]+", " ", text)
RECURSIVE CollapseNonAlnum(_, _)
CollapseNonAlnum(s, inRun) ==
    IF s = <<>> THEN <<>>
    ELSE IF Head(s) \notin LowerLetters \cup Digits
         THEN (IF inRun THEN <<>> ELSE <<" ">>) \o CollapseNonAlnum(Tail(s), TRUE)
         ELSE <<Head(s)>> \o CollapseNonAlnum(Tail(s), FALSE)

normalize_for_compare(value) ==
    LET t0 == lower(normalize_text(value))
        t1 == StripDiacritics(FoldVowels(t0))
        t2 == ReSub(t1, << <<"g", "t">> >>, <<"g", "a", "t", "e">>, FALSE)
        t3 == ReSub(t2, << <<"v", "n">> >>, <<"v", "e", "i", "e", "n">>, FALSE)
        t4 == ReSub(t3, << <<"v">> >>, <<"v", "e", "i", "e", "n">>, FALSE)
        t5 == ReSub(t4, << <<"v", "e", "i">> >>, <<"v", "e", "i", "e", "n">>, FALSE)
        t6 == ReSub(t5, << <<"v", "e", "i", ".">> >>, <<"v", "e", "i", "e", "n">>, FALSE)
        t7 == ReSub(t6, << <<"s", "v", ".">> >>, <<"s", "v", "i", "n", "g">>, FALSE)
    IN  strip(CollapseNonAlnum(t7, FALSE), {" "})

(***************************************************************************)
(* difflib.SequenceMatcher(None, a, b).ratio()                             *)
(* (no junk; the autojunk heuristic needs len(b) >= 200)                   *)
(***************************************************************************)
\* length of the common run of a from i and b from j, inside a[..ahi], b[..bhi]
RECURSIVE RunLen(_, _, _, _, _, _)
RunLen(a, b, i, j, ahi, bhi) ==
    IF i <= ahi /\ j <= bhi /\ a[i] = b[j]
    THEN 1 + RunLen(a, b, i + 1, j + 1, ahi, bhi)
    ELSE 0

\* find_longest_match(alo, ahi, blo, bhi), bounds 1-based inclusive: <<i, j, k>>,
\* the longest block, of those the earliest in a, of those the earliest in b
find_longest_match(a, b, alo, ahi, blo, bhi) ==
    LET Pairs == (alo..ahi) \X (blo..bhi)
        K(p) == RunLen(a, b, p[1], p[2], ahi, bhi)
        Better(p, q) ==
            \/ K(p) > K(q)
            \/ K(p) = K(q) /\ p[1] < q[1]
            \/ K(p) = K(q) /\ p[1] = q[1] /\ p[2] <= q[2]
    IN  IF Pairs = {} THEN <<alo, blo, 0>>
        ELSE LET best == CHOOSE p \in Pairs : \A q \in Pairs : Better(p, q)
             IN  IF K(best) = 0 THEN <<alo, blo, 0>>
                 ELSE <<best[1], best[2], K(best)>>

\* sum of the sizes of get_matching_blocks(): the longest match, then
\* recursively the pieces to its left and to its right
RECURSIVE MatchedChars(_, _, _, _, _, _)
MatchedChars(a, b, alo, ahi, blo, bhi) ==
    LET m == find_longest_match(a, b, alo, ahi, blo, bhi)
    IN  IF m[3] = 0 THEN 0
        ELSE m[3]
             + MatchedChars(a, b, alo, m[1] - 1, blo, m[2] - 1)
             + MatchedChars(a, b, m[1] + m[3], ahi, m[2] + m[3], bhi)

\* ratio() = 2.0 * matches / (len(a) + len(b)), 1.0 when both are empty,
\* as the fraction <<numerator, denominator>>
ratio(a, b) ==
    IF Len(a) + Len(b) = 0 THEN <<1, 1>>
    ELSE <<2 * MatchedChars(a, b, 1, Len(a), 1, Len(b)), Len(a) + Len(b)>>

(***************************************************************************)
(* Candidate scoring (Provider A)                                          *)
(***************************************************************************)
\* Python `a or b` on strings
Or(a, b) == IF a # <<>> THEN a ELSE b

\* has_kommune_match once both arguments are normalized
KommuneNormsMatch(source_norm, candidate_norm) ==
    LET source_parts == SplitOn(source_norm, {",", "/", "(", ")", "-"}, <<>>)
        Hit(part) ==
            part # <<>> /\ (part = candidate_norm \/ Contains(candidate_norm, part))
    IN  IF source_norm = <<>> \/ candidate_norm = <<>> THEN FALSE
        ELSE IF Contains(source_norm, candidate_norm) THEN TRUE
        ELSE \E k \in 1..Len(source_parts) : Hit(strip(source_parts[k], {" "}))

has_kommune_match(source_value, candidate_value) ==
    KommuneNormsMatch(normalize_for_compare(source_value),
                      normalize_for_compare(candidate_value))

\* the float n/d + whole, n/d * whole, and comparisons of fractions (d > 0)
FracAdd(f, whole) == <<f[1] + whole * f[2], f[2]>>

FracMul(f, whole) == <<f[1] * whole, f[2]>>

FracGeq(f, g) == f[1] * g[2] >= g[1] * f[2]

FracLess(f, g) == f[1] * g[2] < g[1] * f[2]

FracSub(f, g) == <<f[1] * g[2] - g[1] * f[2], f[2] * g[2]>>

\* returns [score, ratio], both fractions
\* the score once the texts are normalized: 5 * ratio plus the four bonuses
ScoreOfNorms(input_address_norm, candidate_address_norm, r, postnummer_match, poststed_match, kommune_match) ==
    [score |->
        FracAdd(FracMul(r, 5),
            (IF postnummer_match THEN 3 ELSE 0)
            + (IF poststed_match THEN 2 ELSE 0)
            + (IF kommune_match THEN 1 ELSE 0)
            + (IF /\ candidate_address_norm # <<>>
                  /\ candidate_address_norm = input_address_norm
               THEN 1 ELSE 0)),
     ratio |-> r]

\* ratio and exact-match term from the two normalized addresses
ScoreOfAddresses(input_address_norm, candidate_address_norm, postnummer_match, poststed_match, kommune_match) ==
    ScoreOfNorms(input_address_norm, candidate_address_norm,
                 ratio(input_address_norm, candidate_address_norm),
                 postnummer_match, poststed_match, kommune_match)

\* candidate_x and candidate_x == row.x
NonEmptyEqual(candidate_value, row_value) ==
    candidate_value # <<>> /\ candidate_value = row_value

\* candidate_poststed and normalize_for_compare(candidate_poststed) == ...
PoststedMatch(candidate_poststed, row_poststed) ==
    /\ candidate_poststed # <<>>
    /\ normalize_for_compare(candidate_poststed) = normalize_for_compare(row_poststed)

\* returns [score, ratio], both fractions
score_geonorge_candidate(candidate, row) ==
    ScoreOfAddresses(
        normalize_for_compare(row.adresse),
        normalize_for_compare(normalize_text(
            Or(candidate.adressetekst,
               Or(candidate.adressetekstutenadressetilleggsnavn, <<>>)))),
        NonEmptyEqual(sanitize_postnummer(candidate.postnummer), row.postnummer),
        PoststedMatch(normalize_text(candidate.poststed), row.poststed),
        has_kommune_match(row.kommune, normalize_text(candidate.kommunenavn)))

(***************************************************************************)
(* Query generation                                                        *)
(***************************************************************************)
RECURSIVE DedupeFrom(_, _, _)
DedupeFrom(items, seen, result) ==
    IF items = <<>> THEN result
    ELSE LET normalized == normalize_text(Head(items))
             key == lower(normalized)
         IN  IF normalized = <<>> \/ key \in seen
             THEN DedupeFrom(Tail(items), seen, result)
             ELSE DedupeFrom(Tail(items), seen \cup {key}, Append(result, normalized))

\* a mutation of dedupe_keep_order: the key is the text itself, capitals
\* and small letters apart
RECURSIVE DedupeExactFrom(_, _, _)
DedupeExactFrom(items, seen, result) ==
    IF items = <<>> THEN result
    ELSE LET normalized == normalize_text(Head(items))
         IN  IF normalized = <<>> \/ normalized \in seen
             THEN DedupeExactFrom(Tail(items), seen, result)
             ELSE DedupeExactFrom(Tail(items), seen \cup {normalized},
                                  Append(result, normalized))

dedupe_case_sensitive(items) == DedupeExactFrom(items, {}, <<>>)

dedupe_keep_order(items) == DedupeFrom(items, {}, <<>>)

expand_address_abbreviations(address) ==
    LET t0 == normalize_text(address)
        t1 == ReSub(t0, << <<"g", "t", ".">>, <<"g", "t">> >>, <<"g", "a", "t", "e">>, TRUE)
        t2 == ReSub(t1, << <<"g", ".">> >>, <<"g", "a", "t", "e">>, TRUE)
        t3 == ReSub(t2, << <<"v", "n", ".">>, <<"v", "n">> >>, <<"v", "e", "g", "e", "n">>, TRUE)
        t4 == ReSub(t3, << <<"v", ".">> >>, <<"v", "e", "g", "e", "n">>, TRUE)
        t5 == ReSub(t4, << <<"v", "e", "g", ".">> >>, <<"v", "e", "g", "e", "n">>, TRUE)
        t6 == ReSub(t5, << <<"s", "v", ".">> >>, <<"s", "v", "i", "n", "g">>, TRUE)
        t7 == ReSub(t6, << <<"v", "e", "i", "e", "n", "g", "e", "n">> >>,
                    <<"v", "e", "g", "e", "n">>, TRUE)
    IN  strip(CollapseSpaces(t7, FALSE), {" ", "nbsp"})

\* the character class [A-Za-z(AE)(O/)(A-ring)(ae)(o/)(a-ring)0-9 .'\-]
InStreetClass(ch) ==
    ch \in LowerLetters \cup UpperLetters \cup NordicLower \cup NordicUpper
           \cup Digits \cup {" ", ".", "'", "-"}

\* re.search(r"([class]+?\d+[A-Za-z]?)", base): the match as <<first, last>>,
\* <<0, 0>> when there is none
StreetNumberSpan(base) ==
    LET n == Len(base)
        \* the lazy class run from i ends right before the digit at p
        DigitAfter(i, p) ==
            /\ p > i /\ p <= n /\ IsDigit(base[p])
            /\ \A k \in i..(p - 1) : InStreetClass(base[k])
        Starts == {i \in 1..n : \E p \in 1..n : DigitAfter(i, p)}
    IN  IF Starts = {} THEN <<0, 0>>
        ELSE LET i == CHOOSE x \in Starts : \A y \in Starts : x <= y
                 p == CHOOSE x \in 1..n :
                          DigitAfter(i, x) /\ \A y \in 1..n : DigitAfter(i, y) => x <= y
                 \* \d+ is greedy
                 e == CHOOSE x \in p..n :
                          /\ \A k \in p..x : IsDigit(base[k])
                          /\ (x = n \/ ~IsDigit(base[x + 1]))
                 last == IF e < n /\ base[e + 1] \in LowerLetters \cup UpperLetters
                         THEN e + 1 ELSE e
             IN  <<i, last>>

\* [x for pair in ((c, expand(c)) for c in variants) for x in pair]
RECURSIVE WithExpansions(_)
WithExpansions(variants) ==
    IF variants = <<>> THEN <<>>
    ELSE <<Head(variants), expand_address_abbreviations(Head(variants))>>
         \o WithExpansions(Tail(variants))

\* [normalize_text(part) for part in pieces if normalize_text(part)]
NonEmptyParts(pieces) ==
    SelectSeq([k \in 1..Len(pieces) |-> normalize_text(pieces[k])],
              LAMBDA part : part # <<>>)

\* [part for part in parts if re.search(r"\d", part)]
PartsWithDigit(parts) ==
    SelectSeq(parts, LAMBDA part : \E k \in 1..Len(part) : IsDigit(part[k]))

\* the street-and-number fragment, when the regular expression matches
MatchedFragment(base, span) ==
    IF span = <<0, 0>> THEN <<>>
    ELSE <<normalize_text(SubSeq(base, span[1], span[2]))>>

\* the variants before abbreviation expansion, from base and its segments
VariantsOf(base, parts) ==
    <<base>> \o parts \o PartsWithDigit(parts)
    \o MatchedFragment(base, StreetNumberSpan(base))

VariantsOfBase(base) ==
    VariantsOf(base, NonEmptyParts(SplitOn(base, {";", ","}, <<>>)))

address_variants(address) ==
    dedupe_keep_order(WithExpansions(VariantsOfBase(strip(normalize_text(address), {","}))))

KommuneParts(base, parts) ==
    IF base # <<>> /\ ~(\E k \in 1..Len(parts) : parts[k] = base)
    THEN Append(parts, base) ELSE parts

KommuneVariantsOfBase(base) ==
    dedupe_keep_order(
        KommuneParts(base, NonEmptyParts(SplitOn(base, {",", "/", "(", ")", "-"}, <<>>))))

kommune_variants(kommune) == KommuneVariantsOfBase(normalize_text(kommune))

\* kommuner[0] if kommuner else row.kommune
FirstOr(kommuner, fallback) == IF kommuner # <<>> THEN kommuner[1] ELSE fallback

hovedkommune(row) == FirstOr(kommune_variants(row.kommune), row.kommune)

Norge == <<"N", "o", "r", "g", "e">>

\* queries[:limit]
FirstN(all, limit) == SubSeq(all, 1, IF Len(all) < limit THEN Len(all) ELSE limit)

\* the four queries of one address variant; hoved = hovedkommune
GeonorgeQuad(address, row, hoved) ==
    << address \o <<" ">> \o row.postnummer \o <<" ">> \o row.poststed,
       address \o <<" ">> \o row.poststed,
       address \o <<" ">> \o hoved,
       address \o <<" ">> \o Norge >>

\* the for loop of geonorge_queries, with its break
RECURSIVE GeonorgeLoop(_, _, _, _)
GeonorgeLoop(variants, row, hoved, queries) ==
    IF variants = <<>> THEN queries
    ELSE IF Len(queries) + 4 >= 20
    THEN queries \o GeonorgeQuad(Head(variants), row, hoved)
    ELSE GeonorgeLoop(Tail(variants), row, hoved,
                      queries \o GeonorgeQuad(Head(variants), row, hoved))

geonorge_queries(row) ==
    FirstN(dedupe_keep_order(
               GeonorgeLoop(address_variants(row.adresse), row, hovedkommune(row), <<>>)),
           20)

\* ", ".join(part for part in parts if normalize_text(part))
JoinParts(parts) ==
    join(<<",", " ">>, SelectSeq(parts, LAMBDA part : normalize_text(part) # <<>>))

\* the two queries of one address variant
NominatimPair(address, row, hoved) ==
    << JoinParts(<<address, row.postnummer \o <<" ">> \o row.poststed, hoved, Norge>>),
       JoinParts(<<address, row.poststed, hoved, Norge>>) >>

\* the for loop of nominatim_queries, with its break
RECURSIVE NominatimLoop(_, _, _, _)
NominatimLoop(variants, row, hoved, queries) ==
    IF variants = <<>> THEN queries
    ELSE IF Len(queries) + 2 >= 12
    THEN queries \o NominatimPair(Head(variants), row, hoved)
    ELSE NominatimLoop(Tail(variants), row, hoved,
                       queries \o NominatimPair(Head(variants), row, hoved))

\* the three queries seeded with Provider A's verified address;
\* postal = f"{preferred_postnummer or row.postnummer} {preferred_poststed or row.poststed}"
SeededQueries(preferred_address, postal, poststed, hoved) ==
    IF preferred_address # <<>>
    THEN << JoinParts(<<preferred_address, postal, Norge>>),
            JoinParts(<<preferred_address, poststed, Norge>>),
            JoinParts(<<preferred_address, postal, hoved, Norge>>) >>
    ELSE <<>>

NominatimQueriesWith(row, hoved, preferred_address, postnummer, poststed) ==
    FirstN(dedupe_keep_order(
               NominatimLoop(address_variants(row.adresse), row, hoved,
                   SeededQueries(preferred_address,
                                 postnummer \o <<" ">> \o poststed, poststed, hoved))),
           12)

\* a preferred_* argument that is None is the empty string
nominatim_queries(row, preferred_address, preferred_postnummer, preferred_poststed) ==
    NominatimQueriesWith(row, hovedkommune(row), preferred_address,
                         Or(preferred_postnummer, row.postnummer),
                         Or(preferred_poststed, row.poststed))

(***************************************************************************)
(* Program constants                                                       *)
(***************************************************************************)
\* 1.05 s and 0.05 s, in units of 0.01 s
NOMINATIM_DELAY_SECONDS == 105

GEONORGE_DELAY_SECONDS == 5

\* 500.0 m and 2000.0 m, in units of 0.5 m
WARN_COORD_DIFF_METERS == 1000

DOUBT_COORD_DIFF_METERS == 4000

\* for attempt in range(5)
MaxAttempts == 5

(***************************************************************************)
(* Optional values and JSON numbers                                        *)
(***************************************************************************)
None == <<>>

Some(v) == <<v>>

\* a JSON value read with float(): a number, null/absent, or text that
\* float() rejects with ValueError
CoordNum(n) == [k |-> "num", v |-> n]

CoordNone == [k |-> "none", v |-> 0]

CoordText == [k |-> "text", v |-> 0]

\* Every point of the model lies on one meridian (lon = 0); lat is the arc
\* length from a reference parallel in units of 0.5 m.  There the haversine
\* formula reduces to 6371000 * |dlat|.
haversine_meters(a, b) ==
    IF a[2] >= b[2] THEN a[2] - b[2] ELSE b[2] - a[2]

\* int(x) of a non-negative float given in units of 0.5 m: whole metres
int_meters(x) == x \div 2

(***************************************************************************)
(* read_legevakter_from_excel                                              *)
(* A sheet is the list parse_sheet_rows returns: the header row and the    *)
(* data rows, each row (dict[int, str]) a sequence of cells indexed by its *)
(* column; a cell that is absent from a row is the empty string.           *)
(***************************************************************************)
\* all(term in text for term in expected_terms)
HasAllTerms(text, expected_terms) ==
    \A k \in 1..Len(expected_terms) : Contains(text, expected_terms[k])

\* a mutation of MatchingColumns: the first term of the keyword set is enough
MatchingColumnsFirstTerm(header, expected_terms) ==
    { c \in 1..Len(header) :
        Contains(normalize_for_compare(header[c]), expected_terms[1]) }

\* the columns whose normalized header text holds every expected term
MatchingColumns(header, expected_terms) ==
    { c \in 1..Len(header) :
        HasAllTerms(normalize_for_compare(header[c]), expected_terms) }

\* find_column_index: the first such column; None stands for the ValueError
find_column_index(header, expected_terms) ==
    LET found == MatchingColumns(header, expected_terms)
    IN  IF found = {} THEN None
        ELSE Some(CHOOSE c \in found : \A d \in found : c <= d)

\* the keyword sets of the five required columns
ColumnTerms ==
    [navn |-> << <<"l", "e", "g", "e", "v", "a", "k", "t", "n", "a", "v", "n">> >>,
     kommune |-> << <<"h", "o", "v", "e", "d", "k", "o", "m", "m", "u", "n", "e", "r">> >>,
     adresse |-> << <<"b", "e", "s", "o", "k", "s", "a", "d", "r", "e", "s", "s", "e">>, <<"l", "e", "g", "e", "v", "a", "k", "t">> >>,
     postnummer |-> << <<"p", "o", "s", "t", "n", "u", "m", "m", "e", "r">>, <<"l", "e", "g", "e", "v", "a", "k", "t">> >>,
     poststed |-> << <<"p", "o", "s", "t", "s", "t", "e", "d">>, <<"l", "e", "g", "e", "v", "a", "k", "t">> >>]

\* col_navn, col_kommune, col_adresse, col_postnummer, col_poststed
Columns(header) ==
    [f \in DOMAIN ColumnTerms |-> find_column_index(header, ColumnTerms[f])]

\* read_legevakter_from_excel raises ValueError: no rows at all, or a
\* required column that is not found
ReadRaises(sheet) ==
    \/ sheet = <<>>
    \/ \E f \in DOMAIN ColumnTerms : Columns(sheet[1])[f] = None

\* row.get(col)
Cell(row, col) == IF col[1] \in DOMAIN row THEN row[col[1]] ELSE <<>>

\* the five fields of one data row
RowFields(row, cols) ==
    [navn |-> normalize_text(Cell(row, cols.navn)),
     kommune |-> normalize_text(Cell(row, cols.kommune)),
     adresse |-> rstrip(normalize_text(Cell(row, cols.adresse)), {","}),
     postnummer |-> sanitize_postnummer(Cell(row, cols.postnummer)),
     poststed |-> normalize_text(Cell(row, cols.poststed))]

\* a mutation of AllPresent: a postal code without a digit counts as missing
AllPresentWithDigits(f) ==
    /\ f.navn # <<>>
    /\ f.kommune # <<>>
    /\ f.adresse # <<>>
    /\ SelectSeq(f.postnummer, IsDigit) # <<>>
    /\ f.poststed # <<>>

\* navn and kommune and adresse and postnummer and poststed
AllPresent(f) ==
    /\ f.navn # <<>>
    /\ f.kommune # <<>>
    /\ f.adresse # <<>>
    /\ f.postnummer # <<>>
    /\ f.poststed # <<>>

\* LegevaktRow(source_row=idx, ...)
LegevaktRow(idx, f) ==
    [source_row |-> idx, navn |-> f.navn, kommune |-> f.kommune,
     adresse |-> f.adresse, postnummer |-> f.postnummer, poststed |-> f.poststed]

\* for idx, row in enumerate(rows[1:], start=2): the rows kept
RECURSIVE ReadRows(_, _, _)
ReadRows(data_rows, cols, idx) ==
    IF data_rows = <<>> THEN <<>>
    ELSE (IF AllPresent(RowFields(Head(data_rows), cols))
          THEN << LegevaktRow(idx, RowFields(Head(data_rows), cols)) >>
          ELSE <<>>) \o ReadRows(Tail(data_rows), cols, idx + 1)

\* the list read_legevakter_from_excel returns when it does not raise
read_legevakter_from_excel(sheet) == ReadRows(Tail(sheet), Columns(sheet[1]), 2)

(***************************************************************************)
(* Inputs of the model: rows, thresholds, provider responses               *)
(***************************************************************************)
MaxRows == 2

\* ceiling of the clock that measures the time since the last request
ClockCap == 100

Oslo == <<"O", "s", "l", "o">>

OSLO == <<"O", "S", "L", "O">>

\* valid rows as read_legevakter_from_excel builds them (source_row is set in
\* Init).  The second address is what the cell ", ," becomes after
\* normalize_text(...).rstrip(","): it yields no query at all.
RowPool ==
    { [navn |-> <<"L", "1">>, kommune |-> Oslo, adresse |-> <<"S", "g", "t", " ", "5">>,
       postnummer |-> <<"0", "1", "5", "1">>, poststed |-> Oslo],
      [navn |-> <<"L", "2">>, kommune |-> <<"B", "oslash">>, adresse |-> <<",", " ">>,
       postnummer |-> <<"3", "8", "0", "0">>, poststed |-> <<"B", "oslash">>] }

RowLists ==
    UNION { [1..n -> RowPool] : n \in 1..MaxRows }

\* row with its spreadsheet line number: enumerate(rows[1:], start=2)
WithSourceRow(pool_rows) ==
    [k \in 1..Len(pool_rows) |->
        [source_row |-> k + 1, navn |-> pool_rows[k].navn,
         kommune |-> pool_rows[k].kommune, adresse |-> pool_rows[k].adresse,
         postnummer |-> pool_rows[k].postnummer, poststed |-> pool_rows[k].poststed]]

\* the header row of the spreadsheet, and one whose city column lacks the
\* word "legevakt"
Header ==
    << <<"L", "e", "g", "e", "v", "a", "k", "t", "n", "a", "v", "n">>,
       <<"H", "o", "v", "e", "d", "k", "o", "m", "m", "u", "n", "e", "r">>,
       <<"B", "e", "s", "oslash", "k", "s", "a", "d", "r", "e", "s", "s", "e", " ", "l", "e", "g", "e", "v", "a", "k", "t">>,
       <<"P", "o", "s", "t", "n", "u", "m", "m", "e", "r", " ", "l", "e", "g", "e", "v", "a", "k", "t">>,
       <<"P", "o", "s", "t", "s", "t", "e", "d", " ", "l", "e", "g", "e", "v", "a", "k", "t">> >>

HeaderWithoutPoststed == [Header EXCEPT ![5] = <<"P", "o", "s", "t", "s", "t", "e", "d">>]

Headers == { Header, HeaderWithoutPoststed }

\* data rows of the spreadsheet (navn, kommune, adresse, postnummer,
\* poststed): the cells of the first row of RowPool, a row without postal
\* code, a row whose address is a comma, and a row whose postal code holds
\* no digit (its address ", ," yields no query)
RawRowPool ==
    { << <<"L", "1">>, Oslo, <<"S", "g", "t", " ", "5">>, <<"0", "1", "5", "1">>, Oslo >>,
      << <<"L", "3">>, Oslo, <<"S", "g", "t", " ", "5">>, <<>>, Oslo >>,
      << <<"L", "4">>, <<"B", "oslash">>, <<",">>, <<"3", "8", "0", "0">>,
         <<"B", "oslash">> >>,
      << <<"L", "5">>, <<"B", "oslash">>, <<",", " ", ",">>, <<"a", "b", "c">>,
         <<"B", "oslash">> >> }

RawRowLists == UNION { [1..n -> RawRowPool] : n \in 0..MaxRows }

\* what parse_sheet_rows returns: nothing (a workbook without sheetData), or
\* a header row followed by data rows
Sheets == { <<>> } \cup { <<h>> \o data : h \in Headers, data \in RawRowLists }

\* read_legevakter_from_excel on the sheets of the model, evaluated once:
\* whether it raises, and the list it returns when it does not
SheetRaises == [sh \in Sheets |-> ReadRaises(sh)]

ReadSheets ==
    [sh \in Sheets |-> IF SheetRaises[sh] THEN <<>> ELSE read_legevakter_from_excel(sh)]

\* the fields read_legevakter_from_excel keeps of the last row of RawRowPool
RowWithoutDigits ==
    [navn |-> <<"L", "5">>, kommune |-> <<"B", "oslash">>, adresse |-> <<",", " ">>,
     postnummer |-> <<"a", "b", "c">>, poststed |-> <<"B", "oslash">>]

\* a row whose street has several entries at Provider A (StreetCands)
StreetRow ==
    [navn |-> <<"L", "6">>, kommune |-> Oslo, adresse |-> <<"S", "g", "t", " ", "5">>,
     postnummer |-> <<"0", "1", "5", "1">>, poststed |-> Oslo]

\* every row a run of the model can hold
AllRows ==
    UNION { { WithSourceRow(rl)[k] : k \in 1..Len(rl) } :
              rl \in UNION { [1..n -> RowPool \cup { RowWithoutDigits, StreetRow }] :
                                n \in 1..MaxRows } }

\* (warn, doubt) in units of 0.5 m: the defaults 500/2000, and 500.0/500.5
ThresholdPairs ==
    { <<WARN_COORD_DIFF_METERS, DOUBT_COORD_DIFF_METERS>>, <<1000, 1001>> }

OnMeridian(lat) == [lat |-> CoordNum(lat), lon |-> CoordNum(0)]

\* Provider A candidates: an exact match of the first row (score 12), one
\* whose text fields are blank (score 0), one without a point, and one whose
\* point is not numeric
CandPool ==
    { [adressetekst |-> <<"S", "G", "T", " ", "5">>,
       adressetekstutenadressetilleggsnavn |-> <<"S", "G", "T", " ", "5">>,
       postnummer |-> <<"0", "1", "5", "1">>, poststed |-> OSLO, kommunenavn |-> OSLO,
       kommunenummer |-> <<"0", "3", "0", "1">>, representasjonspunkt |-> OnMeridian(0)],
      [adressetekst |-> <<" ">>,
       adressetekstutenadressetilleggsnavn |-> <<>>,
       postnummer |-> <<" ">>, poststed |-> <<" ">>, kommunenavn |-> <<>>,
       kommunenummer |-> <<>>, representasjonspunkt |-> OnMeridian(0)],
      [adressetekst |-> <<"X", " ", "1">>,
       adressetekstutenadressetilleggsnavn |-> <<>>,
       postnummer |-> <<>>, poststed |-> <<>>, kommunenavn |-> <<>>,
       kommunenummer |-> <<>>,
       representasjonspunkt |-> [lat |-> CoordNone, lon |-> CoordNone]],
      [adressetekst |-> <<"X", " ", "2">>,
       adressetekstutenadressetilleggsnavn |-> <<>>,
       postnummer |-> <<>>, poststed |-> <<>>, kommunenavn |-> <<>>,
       kommunenummer |-> <<>>,
       representasjonspunkt |-> [lat |-> CoordNum(0), lon |-> CoordText]] }

\* the "adresser" of one response: none, or one candidate
CandLists == { <<>> } \cup { <<c>> : c \in CandPool }

\* what Provider A holds for the street of StreetRow: the street without a
\* number (score 3.75), the same entry with the city (5.75, same key), another
\* street in the city (4.5), and the street with the municipality (4.75)
StreetEntry(address, poststed, kommunenavn, kommunenummer) ==
    [adressetekst |-> address, adressetekstutenadressetilleggsnavn |-> <<>>,
     postnummer |-> <<>>, poststed |-> poststed, kommunenavn |-> kommunenavn,
     kommunenummer |-> kommunenummer, representasjonspunkt |-> OnMeridian(0)]

StreetCands ==
    { StreetEntry(<<"S", "g", "t">>, <<>>, <<>>, <<>>),
      StreetEntry(<<"S", "g", "t">>, OSLO, <<>>, <<>>),
      StreetEntry(<<"S", "g", "x">>, OSLO, <<>>, <<>>),
      StreetEntry(<<"S", "g", "t">>, <<>>, OSLO, <<"0", "3", "0", "1">>) }

\* the "adresser" of one response for StreetRow: up to two entries
StreetCandLists ==
    { <<>> } \cup { <<c>> : c \in StreetCands }
    \cup { <<c, d>> : c \in StreetCands, d \in StreetCands }

\* score_geonorge_candidate and geonorge_queries on the inputs of the model,
\* evaluated once
ScoreTable ==
    [c \in CandPool \cup StreetCands, r \in AllRows |-> score_geonorge_candidate(c, r)]

GeonorgeQueries == [r \in AllRows |-> geonorge_queries(r)]

\* parsed JSON bodies of Provider A: null or {}, a non-empty list (not the
\* documented object), or an object with its "adresser"
BodiesA ==
    { [shape |-> "empty", adresser |-> <<>>], [shape |-> "list", adresser |-> <<>>] }
    \cup { [shape |-> "dict", adresser |-> cs] : cs \in CandLists }

\* parsed JSON bodies of Provider A for a query of StreetRow
StreetBodies ==
    { [shape |-> "empty", adresser |-> <<>>] }
    \cup { [shape |-> "dict", adresser |-> cs] : cs \in StreetCandLists }

\* what Provider A may answer to a query of this row
BodiesFor(row) == IF row.navn = StreetRow.navn THEN StreetBodies ELSE BodiesA

\* latitudes of Provider B's points: 500 m, 500.5 m, 1500 m and 3000 m from
\* the reference parallel
NominatimLats == {1000, 1001, 6000}

DisplayName == <<"S", "t", "o", "r", "g", "t">>

\* data[0] of a Provider B list: an object with a point, one without lat/lon,
\* one whose lat is not numeric, or something that is no object
ItemPool ==
    { [isdict |-> TRUE, lat |-> CoordNum(p), lon |-> CoordNum(0),
       display_name |-> DisplayName, type |-> <<"y", "e", "s">>] : p \in NominatimLats }
    \cup { [isdict |-> TRUE, lat |-> CoordNone, lon |-> CoordNone,
            display_name |-> DisplayName, type |-> <<>>],
           [isdict |-> TRUE, lat |-> CoordText, lon |-> CoordNum(0),
            display_name |-> DisplayName, type |-> <<>>],
           [isdict |-> FALSE, lat |-> CoordNone, lon |-> CoordNone,
            display_name |-> <<>>, type |-> <<>>] }

NoItem == [isdict |-> FALSE, lat |-> CoordNone, lon |-> CoordNone,
           display_name |-> <<>>, type |-> <<>>]

\* parsed JSON bodies of Provider B: null or [], an object (no list), or a list
BodiesB ==
    { [shape |-> "empty", first |-> NoItem], [shape |-> "dict", first |-> NoItem] }
    \cup { [shape |-> "list", first |-> item] : item \in ItemPool }

\* the Retry-After header of a 429: absent, not a number, 0 or 3 seconds
RetryAfterValues ==
    { [k |-> "absent", v |-> 0], [k |-> "text", v |-> 0],
      [k |-> "num", v |-> 0], [k |-> "num", v |-> 300] }

\* what one GET can produce, apart from HTTP 200 with a parseable body:
\* 200 with a body json() rejects, 429, another status, a timeout or network error
Failures ==
    { [kind |-> "badjson", retry_after |-> [k |-> "absent", v |-> 0]],
      [kind |-> "status", retry_after |-> [k |-> "absent", v |-> 0]],
      [kind |-> "error", retry_after |-> [k |-> "absent", v |-> 0]] }
    \cup { [kind |-> "429", retry_after |-> ra] : ra \in RetryAfterValues }

(***************************************************************************)
(* geocode_geonorge: the candidates of one response, and the result        *)
(***************************************************************************)
\* one pass of the inner for loop, sc being the candidate's score and ratio
ScoreCandidate(candidate, key, sc, acc) ==
    IF key \in acc.seen THEN acc
    ELSE IF \/ candidate.representasjonspunkt.lat.k = "none"
            \/ candidate.representasjonspunkt.lon.k = "none"
    THEN [seen |-> acc.seen \cup {key}, scored |-> acc.scored]
    ELSE [seen |-> acc.seen \cup {key},
          scored |-> Append(acc.scored, [score |-> sc.score, ratio |-> sc.ratio,
                                         candidate |-> candidate])]

\* key = (address, postnummer, kommunenummer)
CandidateKey(candidate) ==
    << normalize_text(Or(candidate.adressetekst, <<>>)),
       sanitize_postnummer(Or(candidate.postnummer, <<>>)),
       normalize_text(Or(candidate.kommunenummer, <<>>)) >>

\* CandidateKey on the candidates of the model, evaluated once
CandidateKeys == [c \in CandPool \cup StreetCands |-> CandidateKey(c)]

\* the candidates of a response that carry a point: lat and lon are not None
WithPoint(candidates) ==
    { candidates[k] : k \in { j \in 1..Len(candidates) :
          /\ candidates[j].representasjonspunkt.lat.k # "none"
          /\ candidates[j].representasjonspunkt.lon.k # "none" } }

\* the inner for loop over data["adresser"]: acc = [seen, scored]
RECURSIVE ScoreCandidates(_, _, _)
ScoreCandidates(candidates, row, acc) ==
    IF candidates = <<>> THEN acc
    ELSE ScoreCandidates(Tail(candidates), row,
             ScoreCandidate(Head(candidates), CandidateKeys[Head(candidates)],
                            ScoreTable[Head(candidates), row], acc))

\* a mutation of BestScoreReached: the loop breaks only above 12.0
BestScoreAbove12(scored) ==
    \E k \in 1..Len(scored) : FracLess(<<12, 1>>, scored[k].score)

\* max(item[0] for item in scored) >= 9.5
BestScoreReached(scored) ==
    \E k \in 1..Len(scored) : FracGeq(scored[k].score, <<19, 2>>)

\* scored.sort(key=lambda item: item[0], reverse=True): stable, descending
RECURSIVE InsertByScore(_, _)
InsertByScore(sorted, item) ==
    IF sorted = <<>> THEN <<item>>
    ELSE IF FracLess(Head(sorted).score, item.score)
         THEN <<item>> \o sorted
         ELSE <<Head(sorted)>> \o InsertByScore(Tail(sorted), item)

RECURSIVE SortScored(_, _)
SortScored(scored, sorted) ==
    IF scored = <<>> THEN sorted
    ELSE SortScored(Tail(scored), InsertByScore(sorted, Head(scored)))

\* round(x, 3) of the fraction f >= 0, in thousandths (ties to even)
Round3(f) ==
    LET q == (1000 * f[1]) \div f[2]
        r == (1000 * f[1]) % f[2]
    IN  IF 2 * r > f[2] \/ (2 * r = f[2] /\ q % 2 = 1) THEN q + 1 ELSE q

confidence_label(best_score) ==
    IF FracGeq(best_score, <<8, 1>>) THEN "high"
    ELSE IF FracGeq(best_score, <<6, 1>>) THEN "medium"
    ELSE "low"

\* a mutation of is_ambiguous: a gap of exactly 0.75 counts as ambiguous
is_ambiguous_inclusive(sorted) ==
    /\ Len(sorted) > 1
    /\ FracGeq(<<3, 4>>, FracSub(sorted[1].score, sorted[2].score))

\* second_score is not None and (best_score - second_score) < 0.75
is_ambiguous(sorted) ==
    /\ Len(sorted) > 1
    /\ FracLess(FracSub(sorted[1].score, sorted[2].score), <<3, 4>>)

\* float(point["lon"]) or float(point["lat"]) raises ValueError
PointRaises(point) == point.lon.k = "text" \/ point.lat.k = "text"

\* the best candidate's point cannot be converted
GeonorgeResultRaises(scored) ==
    /\ scored # <<>>
    /\ PointRaises(SortScored(scored, <<>>)[1].candidate.representasjonspunkt)

\* the dict geocode_geonorge returns, from the sorted list
ResultOfSorted(sorted, best_candidate, row) ==
    [coordinates |-> << best_candidate.representasjonspunkt.lon.v,
                        best_candidate.representasjonspunkt.lat.v >>,
     address |-> normalize_text(
         Or(best_candidate.adressetekst,
            Or(best_candidate.adressetekstutenadressetilleggsnavn, row.adresse))),
     postnummer |-> sanitize_postnummer(Or(best_candidate.postnummer, row.postnummer)),
     poststed |-> normalize_text(Or(best_candidate.poststed, row.poststed)),
     kommunenavn |-> normalize_text(best_candidate.kommunenavn),
     score |-> Round3(sorted[1].score),
     address_ratio |-> Round3(sorted[1].ratio),
     confidence |-> confidence_label(sorted[1].score),
     ambiguous |-> is_ambiguous(sorted)]

ResultOfBest(sorted, row) == ResultOfSorted(sorted, sorted[1].candidate, row)

\* what geocode_geonorge returns after its query loop
GeonorgeResult(scored, row) ==
    IF scored = <<>> THEN None
    ELSE Some(ResultOfBest(SortScored(scored, <<>>), row))

(***************************************************************************)
(* build_geojson_and_report: one row's cross-validation and selection      *)
(***************************************************************************)
\* f"coordinate_diff_gt_{int(threshold)}m"
coordinate_diff_tag(threshold) == <<"coordinate_diff_gt_", int_meters(threshold), "m">>

LowConfidenceTag == <<"low_geonorge_confidence">>

AmbiguousTag == <<"ambiguous_geonorge_match">>

MissingGeonorgeTag == <<"missing_geonorge_match">>

MissingNominatimTag == <<"missing_nominatim_match">>

\* tag in warnings
HasTag(warnings, tag) == \E k \in 1..Len(warnings) : warnings[k] = tag

\* coordinate_difference_m: None unless both providers produced a result
coordinate_difference(geonorge, nominatim) ==
    IF geonorge # None /\ nominatim # None
    THEN Some(haversine_meters(geonorge[1].coordinates, nominatim[1].coordinates))
    ELSE None

\* a mutation of WarningsOf: the thresholds compared with >= instead of >
WarningsOfInclusive(diff, geonorge, nominatim, warn, doubt) ==
    (IF diff # None /\ diff[1] >= warn THEN <<coordinate_diff_tag(warn)>> ELSE <<>>)
    \o (IF diff # None /\ diff[1] >= doubt THEN <<coordinate_diff_tag(doubt)>> ELSE <<>>)
    \o (IF geonorge # None /\ geonorge[1].confidence = "low"
        THEN <<LowConfidenceTag>> ELSE <<>>)
    \o (IF geonorge # None /\ geonorge[1].ambiguous THEN <<AmbiguousTag>> ELSE <<>>)
    \o (IF geonorge = None THEN <<MissingGeonorgeTag>> ELSE <<>>)
    \o (IF nominatim = None THEN <<MissingNominatimTag>> ELSE <<>>)

\* the warnings list of one row, diff being coordinate_difference_m
WarningsOf(diff, geonorge, nominatim, warn, doubt) ==
    (IF diff # None /\ diff[1] > warn THEN <<coordinate_diff_tag(warn)>> ELSE <<>>)
    \o (IF diff # None /\ diff[1] > doubt THEN <<coordinate_diff_tag(doubt)>> ELSE <<>>)
    \o (IF geonorge # None /\ geonorge[1].confidence = "low"
        THEN <<LowConfidenceTag>> ELSE <<>>)
    \o (IF geonorge # None /\ geonorge[1].ambiguous THEN <<AmbiguousTag>> ELSE <<>>)
    \o (IF geonorge = None THEN <<MissingGeonorgeTag>> ELSE <<>>)
    \o (IF nominatim = None THEN <<MissingNominatimTag>> ELSE <<>>)

RowWarnings(geonorge, nominatim, warn, doubt) ==
    WarningsOf(coordinate_difference(geonorge, nominatim), geonorge, nominatim,
               warn, doubt)

\* a mutation of Selected: the row's input fields are kept whatever
\* Provider A verified
SelectedFromInput(row, geonorge, nominatim) ==
    [coordinates |-> IF geonorge # None THEN Some(geonorge[1].coordinates)
                     ELSE IF nominatim # None THEN Some(nominatim[1].coordinates)
                     ELSE None,
     adresse |-> row.adresse,
     postnummer |-> row.postnummer,
     poststed |-> row.poststed]

\* a mutation of Selected: Provider B's display name becomes the address
\* when it supplies the point
SelectedFromNominatim(row, geonorge, nominatim) ==
    IF geonorge # None
    THEN [coordinates |-> Some(geonorge[1].coordinates),
          adresse |-> Or(geonorge[1].address, row.adresse),
          postnummer |-> Or(geonorge[1].postnummer, row.postnummer),
          poststed |-> Or(geonorge[1].poststed, row.poststed)]
    ELSE [coordinates |-> IF nominatim # None THEN Some(nominatim[1].coordinates) ELSE None,
          adresse |-> IF nominatim # None THEN nominatim[1].display_name ELSE row.adresse,
          postnummer |-> row.postnummer,
          poststed |-> row.poststed]

\* a mutation of Selected: Provider B's point is never used
SelectedGeonorgeOnly(row, geonorge, nominatim) ==
    IF geonorge # None
    THEN [coordinates |-> Some(geonorge[1].coordinates),
          adresse |-> Or(geonorge[1].address, row.adresse),
          postnummer |-> Or(geonorge[1].postnummer, row.postnummer),
          poststed |-> Or(geonorge[1].poststed, row.poststed)]
    ELSE [coordinates |-> None,
          adresse |-> row.adresse,
          postnummer |-> row.postnummer,
          poststed |-> row.poststed]

\* chosen_coords and the verified_* fields
Selected(row, geonorge, nominatim) ==
    IF geonorge # None
    THEN [coordinates |-> Some(geonorge[1].coordinates),
          adresse |-> Or(geonorge[1].address, row.adresse),
          postnummer |-> Or(geonorge[1].postnummer, row.postnummer),
          poststed |-> Or(geonorge[1].poststed, row.poststed)]
    ELSE [coordinates |-> IF nominatim # None THEN Some(nominatim[1].coordinates) ELSE None,
          adresse |-> row.adresse,
          postnummer |-> row.postnummer,
          poststed |-> row.poststed]

\* a mutation of IsDoubtful: a row Provider A did not resolve is doubtful too
IsDoubtfulOnMissing(warnings) ==
    \/ HasTag(warnings, <<"coordinate_diff_gt_", 2000, "m">>)
    \/ HasTag(warnings, LowConfidenceTag)
    \/ HasTag(warnings, MissingGeonorgeTag)

\* any(tag in warnings for tag in ["coordinate_diff_gt_2000m", "low_geonorge_confidence"])
IsDoubtful(warnings) ==
    \/ HasTag(warnings, <<"coordinate_diff_gt_", 2000, "m">>)
    \/ HasTag(warnings, LowConfidenceTag)

make_feature(row, coords, verified_address, verified_postnummer, verified_poststed) ==
    [properties |-> [navn |-> row.navn,
                     kommune |-> row.kommune,
                     adresse |-> verified_address,
                     postnummer |-> verified_postnummer,
                     poststed |-> verified_poststed],
     geometry |-> [coordinates |-> coords]]

\* round(coordinate_difference_m, 1) if it is not None else None: a distance
\* in units of 0.5 m is a whole number of tenths of a metre, which is what
\* the report holds
round_tenths(diff) == IF diff = None THEN None ELSE Some(diff[1] * 5)

\* unresolved.append({...})
UnresolvedItem(row, warnings) ==
    [source_row |-> row.source_row, navn |-> row.navn,
     kommune |-> row.kommune, adresse |-> row.adresse,
     postnummer |-> row.postnummer, poststed |-> row.poststed,
     warnings |-> warnings]

\* a mutation of ReportEntry: Provider B's raw result is left out
ReportEntryWithoutNominatim(row, geonorge, nominatim, warnings, sel, coords, diff) ==
    [source_row |-> row.source_row,
     navn |-> row.navn,
     input |-> [kommune |-> row.kommune, adresse |-> row.adresse,
                postnummer |-> row.postnummer, poststed |-> row.poststed],
     selected |-> [adresse |-> sel.adresse, postnummer |-> sel.postnummer,
                   poststed |-> sel.poststed, coordinates |-> coords],
     geonorge |-> geonorge,
     nominatim |-> None,
     coordinate_difference_m |-> round_tenths(diff),
     warnings |-> warnings]

\* report_entries.append({...}), coords being chosen_coords
ReportEntry(row, geonorge, nominatim, warnings, sel, coords, diff) ==
    [source_row |-> row.source_row,
     navn |-> row.navn,
     input |-> [kommune |-> row.kommune, adresse |-> row.adresse,
                postnummer |-> row.postnummer, poststed |-> row.poststed],
     selected |-> [adresse |-> sel.adresse, postnummer |-> sel.postnummer,
                   poststed |-> sel.poststed, coordinates |-> coords],
     geonorge |-> geonorge,
     nominatim |-> nominatim,
     coordinate_difference_m |-> round_tenths(diff),
     warnings |-> warnings]

\* a mutation of ResolvedRow: a `continue` follows doubtful.append, the
\* doubtful row gets neither a feature nor a report entry
ResolvedRowDoubtfulSkipped(acc, row, geonorge, nominatim, warnings, sel, coords, diff) ==
    IF IsDoubtful(warnings)
    THEN [acc EXCEPT !.doubtful = Append(@, [source_row |-> row.source_row,
                                             navn |-> row.navn,
                                             warnings |-> warnings])]
    ELSE [acc EXCEPT
            !.features = Append(@,
                make_feature(row, coords, sel.adresse, sel.postnummer, sel.poststed)),
            !.report_entries = Append(@,
                ReportEntry(row, geonorge, nominatim, warnings, sel, coords, diff))]

\* the loop body after `if not chosen_coords: ...`: the doubtful entry, the
\* feature and the report entry of a row with coordinates coords
ResolvedRow(acc, row, geonorge, nominatim, warnings, sel, coords, diff) ==
    [features |-> Append(acc.features,
         make_feature(row, coords, sel.adresse, sel.postnummer, sel.poststed)),
     report_entries |-> Append(acc.report_entries,
         ReportEntry(row, geonorge, nominatim, warnings, sel, coords, diff)),
     unresolved |-> acc.unresolved,
     doubtful |-> IF IsDoubtful(warnings)
                  THEN Append(acc.doubtful,
                           [source_row |-> row.source_row, navn |-> row.navn,
                            warnings |-> warnings])
                  ELSE acc.doubtful]

\* a mutation of AppendRow: the `continue` after unresolved.append is
\* missing, the row without coordinates gets a feature at (0, 0) as well
AppendRowNoContinue(acc, row, geonorge, nominatim, warnings, sel, diff) ==
    IF sel.coordinates = None
    THEN ResolvedRow([acc EXCEPT !.unresolved = Append(@, UnresolvedItem(row, warnings))],
                     row, geonorge, nominatim, warnings, sel, <<0, 0>>, diff)
    ELSE ResolvedRow(acc, row, geonorge, nominatim, warnings, sel,
                     sel.coordinates[1], diff)

\* the loop body from `if not chosen_coords` on: acc holds the four lists
\* features, report_entries, unresolved, doubtful; sel is Selected(...)
AppendRow(acc, row, geonorge, nominatim, warnings, sel, diff) ==
    IF sel.coordinates = None
    THEN [acc EXCEPT !.unresolved = Append(@, UnresolvedItem(row, warnings))]
    ELSE ResolvedRow(acc, row, geonorge, nominatim, warnings, sel,
                     sel.coordinates[1], diff)

\* the four lists after the row's cross-validation and selection
ReconcileRow(acc, row, geonorge, nominatim, warn, doubt) ==
    AppendRow(acc, row, geonorge, nominatim,
              RowWarnings(geonorge, nominatim, warn, doubt),
              Selected(row, geonorge, nominatim),
              coordinate_difference(geonorge, nominatim))

(***************************************************************************)
(* State                                                                   *)
(***************************************************************************)
VARIABLES
    rows,                \* the valid rows handed to build_geojson_and_report
    warn_diff_meters,    \* args.warn_diff_meters, in units of 0.5 m
    doubt_diff_meters,   \* args.doubt_diff_meters, in units of 0.5 m
    pc,                  \* where the coroutine stands: "A_get" / "B_get" in
                         \* request_json for a query to Provider A / B,
                         \* "A_finish" past geocode_geonorge's query loop,
                         \* "reconcile" after geocode_nominatim has returned,
                         \* "done" past the row loop, "raised" when an
                         \* exception has left build_geojson_and_report or
                         \* run, "run" at the start of run, "write_report"
                         \* between its two writes, "returned" at its end;
                         \* "compare" where only normalize_for_compare runs,
                         \* "score" where only score_geonorge_candidate does;
                         \* in request_json on its own "request" inside its
                         \* loop, "json" and "no_result" when it has returned
                         \* the parsed body or None; "queries" where only
                         \* the query lists of a row are generated
    idx,                 \* enumerate(rows, start=1)
    queries,             \* the query list of the provider being asked
    qi,                  \* position in queries
    attempt,             \* request_json: attempt
    gets,                \* GETs issued by the running request_json call
    seen_candidates,     \* geocode_geonorge: seen_candidates
    scored,              \* geocode_geonorge: scored
    returned,            \* the candidates with a point that Provider A has
                         \* returned for the row so far, in any response
    geonorge,            \* build_geojson_and_report: geonorge, and
    nominatim,           \* nominatim: each keeps its value until assigned again
    features,
    report_entries,
    unresolved,
    doubtful,
    xlsx,                \* run: the input file: None when it does not exist,
                         \* else the rows parse_sheet_rows finds in it
    strict,              \* args.strict
    written,             \* the files written so far: path and content
    exit_code,           \* what run has returned, None before
    values,              \* the strings handed to the function that is
                         \* applied on its own (normalize_for_compare,
                         \* score_geonorge_candidate)
    results,             \* for each of them what the function returned:
                         \* normalize_for_compare for the string and for
                         \* that result; score_geonorge_candidate with the
                         \* string as the row's address and the other
                         \* string as the candidate's; in request_json on
                         \* its own, the failed attempts so far: what the
                         \* GET produced and the sleep that followed; in
                         \* the query generation on its own, the list
                         \* geonorge_queries and the list nominatim_queries
                         \* returned
    sinceA,              \* time slept since the last GET to Provider A (capped)
    sinceB               \* time slept since the last GET to Provider B (capped)

vars == <<rows, warn_diff_meters, doubt_diff_meters, pc, idx, queries, qi, attempt,
          gets, seen_candidates, scored, returned, geonorge, nominatim, features,
          report_entries, unresolved, doubtful, xlsx, strict, written, exit_code,
          values, results, sinceA, sinceB>>

inputs == <<rows, warn_diff_meters, doubt_diff_meters>>

lists == <<features, report_entries, unresolved, doubtful>>

\* what run holds besides: its arguments, its result, the files
run_frame == <<xlsx, strict, written, exit_code, values, results>>

(***************************************************************************)
(* Initial state: build_geojson_and_report has been called with the rows   *)
(* and stands before the first request of the first row                    *)
(***************************************************************************)
\* entering a provider's query loop with the list qs: at its first request,
\* or past the loop when the list is empty
EnterLoop(qs, first_get, after_loop) ==
    /\ queries' = qs
    /\ qi' = 1
    /\ attempt' = 0
    /\ gets' = 0
    /\ pc' = IF qs = <<>> THEN after_loop ELSE first_get

\* request_json and the provider's query loop are left for pc value `to`:
\* their locals are gone
LeaveLoop(to) == EnterLoop(<<>>, to, to)

\* a mutation of BeginRow: the row's first request goes to Provider B
BeginRowAtNominatim(row) ==
    /\ EnterLoop(GeonorgeQueries[row], "B_get", "A_finish")
    /\ seen_candidates' = {}
    /\ scored' = <<>>
    /\ returned' = {}

\* entering geocode_geonorge for a row: its query list, nothing scored yet
BeginRow(row) ==
    /\ EnterLoop(GeonorgeQueries[row], "A_get", "A_finish")
    /\ seen_candidates' = {}
    /\ scored' = <<>>
    /\ returned' = {}

\* the first row's query list and where the coroutine stands
FirstLoop(qs) ==
    /\ queries = qs
    /\ pc = IF qs = <<>> THEN "A_finish" ELSE "A_get"

Init ==
    /\ rows \in { WithSourceRow(rl) : rl \in RowLists }
    /\ \E pair \in ThresholdPairs :
          /\ warn_diff_meters = pair[1]
          /\ doubt_diff_meters = pair[2]
    /\ idx = 1
    /\ FirstLoop(GeonorgeQueries[rows[1]])
    /\ qi = 1
    /\ attempt = 0
    /\ gets = 0
    /\ seen_candidates = {}
    /\ scored = <<>>
    /\ returned = {}
    /\ geonorge = None
    /\ nominatim = None
    /\ features = <<>>
    /\ report_entries = <<>>
    /\ unresolved = <<>>
    /\ doubtful = <<>>
    /\ xlsx = None
    /\ strict = FALSE
    /\ written = <<>>
    /\ exit_code = None
    /\ values = <<>>
    /\ results = <<>>
    /\ sinceA = ClockCap
    /\ sinceB = ClockCap

(***************************************************************************)
(* request_json                                                            *)
(***************************************************************************)
\* the clock reading after `seconds` more, capped
Elapsed(since, seconds) ==
    IF since + seconds > ClockCap THEN ClockCap ELSE since + seconds

\* await asyncio.sleep(seconds)
Sleep(seconds) ==
    /\ sinceA' = Elapsed(sinceA, seconds)
    /\ sinceB' = Elapsed(sinceB, seconds)

\* client.get to Provider A, and the sleeps up to the next request: seconds
GetFromA(seconds) ==
    /\ sinceA' = Elapsed(0, seconds)
    /\ sinceB' = Elapsed(sinceB, seconds)

\* client.get to Provider B, the clock of Provider B standing at since when
\* the sleeps up to the next request begin: seconds
GetFromB(since, seconds) ==
    /\ sinceA' = Elapsed(sinceA, seconds)
    /\ sinceB' = Elapsed(since, seconds)

\* the sleep after a failed attempt: Retry-After or 2.0 * (attempt + 1) after
\* a 429, else 0.8 * (attempt + 1); in units of 0.01 s
RetryWait(failure, n) ==
    IF failure.kind = "429"
    THEN (IF failure.retry_after.k = "num" THEN failure.retry_after.v
          ELSE 200 * (n + 1))
    ELSE 80 * (n + 1)

\* a mutation of RetriesExhausted: one attempt more than range(5) allows
RetriesExhaustedLate(n) == n > MaxAttempts

\* for attempt in range(5): the loop has run out after n passes
RetriesExhausted(n) == n >= MaxAttempts

\* one pass of the for loop that ends without a result; the coroutine stays
\* in request_json
FailedAttempt ==
    /\ attempt' = attempt + 1
    /\ gets' = gets + 1
    /\ UNCHANGED <<pc, qi, queries>>

(***************************************************************************)
(* geocode_geonorge                                                        *)
(***************************************************************************)
\* the next query of the running provider loop, or leave the loop
NextQuery(next_get, after_loop) ==
    /\ qi' = qi + 1
    /\ attempt' = 0
    /\ gets' = 0
    /\ pc' = IF qi + 1 > Len(queries) THEN after_loop ELSE next_get
    /\ UNCHANGED queries

\* the body of the query loop for the parsed body request_json returned
GeonorgeData(body) ==
    IF body.shape = "empty"
    THEN \* if not data: continue
         /\ NextQuery("A_get", "A_finish")
         /\ GetFromA(0)
         /\ UNCHANGED <<seen_candidates, scored, returned>>
    ELSE IF body.shape # "dict"
    THEN \* data.get raises AttributeError
         /\ LeaveLoop("raised")
         /\ GetFromA(0)
         /\ UNCHANGED <<seen_candidates, scored, returned>>
    ELSE LET after == ScoreCandidates(body.adresser, rows[idx],
                         [seen |-> seen_candidates, scored |-> scored])
         IN  /\ seen_candidates' = after.seen
             /\ scored' = after.scored
             /\ returned' = returned \cup WithPoint(body.adresser)
             /\ GetFromA(GEONORGE_DELAY_SECONDS)
             /\ IF BestScoreReached(after.scored)
                THEN LeaveLoop("A_finish")
                ELSE NextQuery("A_get", "A_finish")

\* one pass of request_json's loop for a query to Provider A: a GET and what
\* follows from the response, up to the next GET; or, the attempts used up,
\* `return None` and the `continue` of the query loop
GeonorgeGet ==
    /\ pc = "A_get"
    /\ IF RetriesExhausted(attempt)
       THEN /\ NextQuery("A_get", "A_finish")
            /\ UNCHANGED <<seen_candidates, scored, returned, sinceA, sinceB>>
       ELSE \/ \E body \in BodiesFor(rows[idx]) : GeonorgeData(body)
            \/ \E failure \in Failures :
                 /\ FailedAttempt
                 /\ GetFromA(RetryWait(failure, attempt))
                 /\ UNCHANGED <<seen_candidates, scored, returned>>
    /\ UNCHANGED <<inputs, run_frame, idx, geonorge, nominatim, lists>>

\* the queries geocode_nominatim builds from its geonorge_match argument
NominatimQueriesFor(row, geonorge_match) ==
    IF geonorge_match # None
    THEN nominatim_queries(row, geonorge_match[1].address,
                           geonorge_match[1].postnummer, geonorge_match[1].poststed)
    ELSE nominatim_queries(row, <<>>, <<>>, <<>>)

\* the query list of the call geocode_nominatim(client, row, geonorge_match)
\* on the inputs of the model, evaluated once; the pipeline passes no
\* geonorge_match
NominatimQueriesNoMatch == [r \in AllRows |-> NominatimQueriesFor(r, None)]

geocode_nominatim(row, geonorge_match) ==
    IF geonorge_match = None THEN NominatimQueriesNoMatch[row]
    ELSE NominatimQueriesFor(row, geonorge_match)

\* geocode_nominatim returns None at once: it has no query to send
NoQueries(qs) == qs = <<>>

\* the end of geocode_geonorge, the sleep that follows it in
\* build_geojson_and_report, and the call geocode_nominatim(client, row)
GeonorgeFinish ==
    /\ pc = "A_finish"
    /\ IF GeonorgeResultRaises(scored)
       THEN /\ LeaveLoop("raised")
            /\ UNCHANGED <<geonorge, nominatim, sinceA, sinceB, seen_candidates, scored,
                           returned>>
       ELSE /\ geonorge' = GeonorgeResult(scored, rows[idx])
            /\ seen_candidates' = {}
            /\ scored' = <<>>
            /\ returned' = {}
            /\ Sleep(GEONORGE_DELAY_SECONDS)
            /\ EnterLoop(geocode_nominatim(rows[idx], None), "B_get", "reconcile")
            /\ nominatim' = IF NoQueries(geocode_nominatim(rows[idx], None))
                            THEN None ELSE nominatim
    /\ UNCHANGED <<inputs, run_frame, idx, lists>>

(***************************************************************************)
(* geocode_nominatim                                                       *)
(***************************************************************************)
\* the dict geocode_nominatim returns for data[0]
NominatimResult(best) ==
    Some([coordinates |-> <<best.lon.v, best.lat.v>>,
          display_name |-> normalize_text(best.display_name),
          type |-> normalize_text(best.type)])

\* sleep NOMINATIM_DELAY_SECONDS and `continue`, the clock standing at since;
\* past the last query the function returns None
NominatimContinue(since) ==
    /\ GetFromB(since, NOMINATIM_DELAY_SECONDS)
    /\ NextQuery("B_get", "reconcile")
    /\ nominatim' = IF qi + 1 > Len(queries) THEN None ELSE nominatim

\* float(best["lat"]) or float(best["lon"]) raises ValueError
ItemRaises(best) == best.lat.k = "text" \/ best.lon.k = "text"

\* the body of the query loop for the parsed body request_json returned
NominatimData(body) ==
    IF body.shape # "list"
    THEN \* if not data or not isinstance(data, list)
         NominatimContinue(0)
    ELSE IF ~body.first.isdict
    THEN \* best.get raises AttributeError
         /\ LeaveLoop("raised")
         /\ GetFromB(0, 0)
         /\ UNCHANGED nominatim
    ELSE IF body.first.lat.k = "none" \/ body.first.lon.k = "none"
    THEN NominatimContinue(0)
    ELSE IF ItemRaises(body.first)
    THEN /\ LeaveLoop("raised")
         /\ GetFromB(0, 0)
         /\ UNCHANGED nominatim
    ELSE /\ nominatim' = NominatimResult(body.first)
         /\ LeaveLoop("reconcile")
         /\ GetFromB(0, 0)

\* one pass of request_json's loop for a query to Provider B: a GET and what
\* follows from the response, up to the next GET; or, the attempts used up,
\* `return None` and the sleep and `continue` of the query loop
NominatimGet ==
    /\ pc = "B_get"
    /\ IF RetriesExhausted(attempt)
       THEN NominatimContinue(sinceB)
       ELSE \/ \E body \in BodiesB : NominatimData(body)
            \/ \E failure \in Failures :
                 /\ FailedAttempt
                 /\ GetFromB(0, RetryWait(failure, attempt))
                 /\ UNCHANGED nominatim
    /\ UNCHANGED <<inputs, run_frame, idx, seen_candidates, scored, returned, geonorge,
                   lists>>

(***************************************************************************)
(* build_geojson_and_report: the rest of the loop body                     *)
(***************************************************************************)
\* the sleep after geocode_nominatim, the row's cross-validation and
\* selection, and the step to the next row or out of the loop
Reconcile ==
    /\ pc = "reconcile"
    /\ LET after == ReconcileRow(
                        [features |-> features, report_entries |-> report_entries,
                         unresolved |-> unresolved, doubtful |-> doubtful],
                        rows[idx], geonorge, nominatim,
                        warn_diff_meters, doubt_diff_meters)
       IN  /\ features' = after.features
           /\ report_entries' = after.report_entries
           /\ unresolved' = after.unresolved
           /\ doubtful' = after.doubtful
    /\ Sleep(NOMINATIM_DELAY_SECONDS)
    /\ idx' = idx + 1
    /\ IF idx + 1 <= Len(rows)
       THEN BeginRow(rows[idx + 1])
       ELSE /\ LeaveLoop("done")
            /\ UNCHANGED <<seen_candidates, scored, returned>>
    /\ UNCHANGED <<inputs, run_frame, geonorge, nominatim>>

Next ==
    \/ GeonorgeGet
    \/ GeonorgeFinish
    \/ NominatimGet
    \/ Reconcile

Spec == Init /\ [][Next]_vars

(***************************************************************************)
(* run                                                                     *)
(***************************************************************************)
\* run returns code before any request
ReturnEarly(code) ==
    /\ exit_code' = Some(code)
    /\ LeaveLoop("returned")

\* run with the list read_legevakter_from_excel returned: `return 1` for no
\* rows, else the call of build_geojson_and_report up to its first request
RunWith(read) ==
    /\ rows' = read
    /\ IF read = <<>>
       THEN ReturnEarly(1)
       ELSE /\ EnterLoop(GeonorgeQueries[read[1]], "A_get", "A_finish")
            /\ UNCHANGED exit_code

\* run from its start to the first request, or to its end when it returns
\* or raises before
RunStart ==
    /\ pc = "run"
    /\ IF xlsx = None
       THEN ReturnEarly(1) /\ UNCHANGED rows
       ELSE IF SheetRaises[xlsx[1]]
       THEN LeaveLoop("raised") /\ UNCHANGED <<rows, exit_code>>
       ELSE RunWith(ReadSheets[xlsx[1]])
    /\ UNCHANGED <<warn_diff_meters, doubt_diff_meters, idx, seen_candidates, scored,
                   returned, geonorge, nominatim, lists, xlsx, strict, written, values,
                   results, sinceA, sinceB>>

\* the two values build_geojson_and_report returns
geojson == [type |-> "FeatureCollection", features |-> features]

report ==
    [summary |-> [total_input_rows |-> Len(rows),
                  features_written |-> Len(features),
                  unresolved_count |-> Len(unresolved),
                  doubtful_count |-> Len(doubtful),
                  warn_coord_diff_meters |-> warn_diff_meters,
                  doubt_coord_diff_meters |-> doubt_diff_meters],
     unresolved |-> unresolved,
     doubtful |-> doubtful,
     entries |-> report_entries]

\* write_json(path, data), or the OSError it raises
write_json(path, data, then) ==
    \/ /\ written' = Append(written, [path |-> path, data |-> data])
       /\ pc' = then
    \/ /\ pc' = "raised"
       /\ UNCHANGED written

\* a mutation of ExitCode: doubtful rows do not count
ExitCodeUnresolvedOnly(summary) ==
    IF strict /\ summary.unresolved_count > 0 THEN 2 ELSE 0

\* the value of run after the two writes
ExitCode(summary) ==
    IF strict /\ (summary.unresolved_count > 0 \/ summary.doubtful_count > 0)
    THEN 2 ELSE 0

\* a mutation of OutputsReady: the files are written when the last row's
\* providers have answered, before the row is judged
OutputsReadyEarly == pc \in {"done", "reconcile"} /\ idx >= Len(rows)

\* build_geojson_and_report has returned to run
OutputsReady == pc = "done"

\* write_json(output_path, geojson)
WriteOutput ==
    /\ OutputsReady
    /\ write_json("output", geojson, "write_report")
    /\ UNCHANGED <<inputs, idx, queries, qi, attempt, gets, seen_candidates, scored,
                   returned, geonorge, nominatim, lists, xlsx, strict, exit_code, values,
                   results, sinceA, sinceB>>

\* write_json(report_path, report) and the return of run
WriteReport ==
    /\ pc = "write_report"
    /\ write_json("report", report, "returned")
    /\ exit_code' = IF pc' = "returned" THEN Some(ExitCode(report.summary)) ELSE None
    /\ UNCHANGED <<inputs, idx, queries, qi, attempt, gets, seen_candidates, scored,
                   returned, geonorge, nominatim, lists, xlsx, strict, values, results,
                   sinceA, sinceB>>

\* the arguments of run: the input file, --strict, and the thresholds
RunInit ==
    /\ xlsx \in { None } \cup { Some(sh) : sh \in Sheets }
    /\ strict \in BOOLEAN
    /\ warn_diff_meters = WARN_COORD_DIFF_METERS
    /\ doubt_diff_meters = DOUBT_COORD_DIFF_METERS
    /\ pc = "run"
    /\ rows = <<>>
    /\ idx = 1
    /\ queries = <<>>
    /\ qi = 1
    /\ attempt = 0
    /\ gets = 0
    /\ seen_candidates = {}
    /\ scored = <<>>
    /\ returned = {}
    /\ geonorge = None
    /\ nominatim = None
    /\ features = <<>>
    /\ report_entries = <<>>
    /\ unresolved = <<>>
    /\ doubtful = <<>>
    /\ written = <<>>
    /\ exit_code = None
    /\ values = <<>>
    /\ results = <<>>
    /\ sinceA = ClockCap
    /\ sinceB = ClockCap

RunNext ==
    \/ RunStart
    \/ GeonorgeGet
    \/ GeonorgeFinish
    \/ NominatimGet
    \/ Reconcile
    \/ WriteOutput
    \/ WriteReport

RunSpec == RunInit /\ [][RunNext]_vars

(***************************************************************************)
(* build_geojson_and_report on the one row StreetRow                       *)
(***************************************************************************)
GeocodeInit ==
    /\ rows = WithSourceRow(<<StreetRow>>)
    /\ warn_diff_meters = WARN_COORD_DIFF_METERS
    /\ doubt_diff_meters = DOUBT_COORD_DIFF_METERS
    /\ idx = 1
    /\ FirstLoop(GeonorgeQueries[rows[1]])
    /\ qi = 1
    /\ attempt = 0
    /\ gets = 0
    /\ seen_candidates = {}
    /\ scored = <<>>
    /\ returned = {}
    /\ geonorge = None
    /\ nominatim = None
    /\ features = <<>>
    /\ report_entries = <<>>
    /\ unresolved = <<>>
    /\ doubtful = <<>>
    /\ xlsx = None
    /\ strict = FALSE
    /\ written = <<>>
    /\ exit_code = None
    /\ values = <<>>
    /\ results = <<>>
    /\ sinceA = ClockCap
    /\ sinceB = ClockCap

GeocodeSpec == GeocodeInit /\ [][Next]_vars

(***************************************************************************)
(* normalize_for_compare applied to strings, and to its own results        *)
(***************************************************************************)
MaxLen == 3

\* characters of the strings: letters of the abbreviation "gt", an
\* underscore, a digit, a blank, a full stop and a non-ASCII letter
CompareAlphabet == {"g", "t", "_", "5", " ", ".", "oslash"}

ShortStrings == UNION { [1..n -> CompareAlphabet] : n \in 0..MaxLen }

\* street addresses whose street name ends in "gt", each with the same
\* address written out with "gate"
StreetPairs ==
    { << name \o <<"g", "t">> \o rest, name \o <<"g", "a", "t", "e">> \o rest >> :
        name \in { <<>>, <<"S", "t", "o", "r">> },
        rest \in { <<>>, <<".">>, <<" ", "5">>, <<".", " ", "5">> } }

\* one string, or an abbreviated address and its expanded form
CompareInputs == { <<s>> : s \in ShortStrings } \cup StreetPairs

\* normalize_for_compare is called on string k, or on the result of the call
\* before
Normalize ==
    /\ pc = "compare"
    /\ \E k \in 1..Len(values) :
          /\ Len(results[k]) < 2
          /\ results' = [results EXCEPT ![k] =
                 Append(@, normalize_for_compare(IF @ = <<>> THEN values[k] ELSE @[1]))]
    /\ UNCHANGED <<inputs, pc, idx, queries, qi, attempt, gets, seen_candidates, scored,
                   returned, geonorge, nominatim, lists, xlsx, strict, written, exit_code,
                   values, sinceA, sinceB>>

CompareInit ==
    /\ values \in CompareInputs
    /\ results = [k \in 1..Len(values) |-> <<>>]
    /\ pc = "compare"
    /\ rows = <<>>
    /\ warn_diff_meters = WARN_COORD_DIFF_METERS
    /\ doubt_diff_meters = DOUBT_COORD_DIFF_METERS
    /\ idx = 1
    /\ queries = <<>>
    /\ qi = 1
    /\ attempt = 0
    /\ gets = 0
    /\ seen_candidates = {}
    /\ scored = <<>>
    /\ returned = {}
    /\ geonorge = None
    /\ nominatim = None
    /\ features = <<>>
    /\ report_entries = <<>>
    /\ unresolved = <<>>
    /\ doubtful = <<>>
    /\ xlsx = None
    /\ strict = FALSE
    /\ written = <<>>
    /\ exit_code = None
    /\ sinceA = ClockCap
    /\ sinceB = ClockCap

CompareSpec == CompareInit /\ [][Normalize]_vars

(***************************************************************************)
(* score_geonorge_candidate applied to two addresses, both ways round      *)
(***************************************************************************)
\* every variable of the pipeline and of run at rest
PipelineIdle ==
    /\ rows = <<>>
    /\ warn_diff_meters = WARN_COORD_DIFF_METERS
    /\ doubt_diff_meters = DOUBT_COORD_DIFF_METERS
    /\ idx = 1
    /\ queries = <<>>
    /\ qi = 1
    /\ attempt = 0
    /\ gets = 0
    /\ seen_candidates = {}
    /\ scored = <<>>
    /\ returned = {}
    /\ geonorge = None
    /\ nominatim = None
    /\ features = <<>>
    /\ report_entries = <<>>
    /\ unresolved = <<>>
    /\ doubtful = <<>>
    /\ xlsx = None
    /\ strict = FALSE
    /\ written = <<>>
    /\ exit_code = None
    /\ sinceA = ClockCap
    /\ sinceB = ClockCap

\* addresses of up to MaxLen letters
Words == UNION { [1..n -> {"a", "b", "c"}] : n \in 1..MaxLen }

AddressPairs == { <<a, b>> : a \in Words, b \in Words }

\* a valid row with this address, and a candidate of the registry that
\* carries nothing but this address
RowAt(address) ==
    [source_row |-> 2, navn |-> <<"L", "1">>, kommune |-> Oslo, adresse |-> address,
     postnummer |-> <<"0", "1", "5", "1">>, poststed |-> Oslo]

CandidateAt(address) ==
    [adressetekst |-> address, adressetekstutenadressetilleggsnavn |-> <<>>,
     postnummer |-> <<>>, poststed |-> <<>>, kommunenavn |-> <<>>,
     kommunenummer |-> <<>>, representasjonspunkt |-> OnMeridian(0)]

\* score_geonorge_candidate is called with string k as the row's address and
\* the other string as the candidate's
Score ==
    /\ pc = "score"
    /\ \E k \in 1..2 :
          /\ results[k] = <<>>
          /\ results' = [results EXCEPT ![k] =
                 << score_geonorge_candidate(CandidateAt(values[3 - k]),
                                             RowAt(values[k])) >>]
    /\ UNCHANGED <<inputs, pc, idx, queries, qi, attempt, gets, seen_candidates, scored,
                   returned, geonorge, nominatim, lists, xlsx, strict, written, exit_code,
                   values, sinceA, sinceB>>

SimilarityInit ==
    /\ values \in AddressPairs
    /\ results = << <<>>, <<>> >>
    /\ pc = "score"
    /\ PipelineIdle

SimilaritySpec == SimilarityInit /\ [][Score]_vars

(***************************************************************************)
(* Query generation on its own: geonorge_queries(row), and the list        *)
(* geocode_nominatim(client, row, geonorge_match) builds first             *)
(***************************************************************************)
\* addresses: one variant; seven variants; variants that differ in case and
\* by an abbreviation; and one without any variant
QueryAddresses ==
    { <<"S", "g", "t", " ", "5">>,
      <<"A", " ", "1", ",", " ", "B", " ", "2", ",", " ", "C", " ", "3", ",", " ", "D", " ", "4", ",", " ", "E", " ", "5", ",", " ", "F", " ", "6">>,
      <<"G", "t", ".", " ", "5", ";", " ", "g", "t", " ", "5">>,
      <<",", " ">> }

\* the municipality: the city, the city in capitals, another name
QueryRows ==
    { [source_row |-> 2, navn |-> <<"L", "1">>, kommune |-> k, adresse |-> a,
       postnummer |-> <<"0", "1", "5", "1">>, poststed |-> Oslo] :
         a \in QueryAddresses, k \in { Oslo, OSLO, <<"B", "oslash">> } }

\* results of geocode_geonorge to seed Provider B's queries with
QueryMatches ==
    { [coordinates |-> <<0, 0>>, address |-> a, postnummer |-> <<"0", "1", "5", "1">>,
       poststed |-> OSLO, kommunenavn |-> OSLO, score |-> 12000, address_ratio |-> 1000,
       confidence |-> "high", ambiguous |-> FALSE] :
         a \in { <<"S", "G", "T", " ", "5">>, <<"A", " ", "1">> } }

\* one of the two lists is generated
BuildQueries ==
    /\ pc = "queries"
    /\ \E k \in 1..2 :
          /\ results[k] = <<>>
          /\ results' = [results EXCEPT ![k] =
                 << IF k = 1 THEN geonorge_queries(rows[1])
                    ELSE NominatimQueriesFor(rows[1], geonorge) >>]
    /\ UNCHANGED <<inputs, pc, idx, queries, qi, attempt, gets, seen_candidates, scored,
                   returned, geonorge, nominatim, lists, xlsx, strict, written, exit_code,
                   values, sinceA, sinceB>>

QueryInit ==
    /\ rows \in { <<r>> : r \in QueryRows }
    /\ geonorge \in { None } \cup { Some(m) : m \in QueryMatches }
    /\ pc = "queries"
    /\ values = <<>>
    /\ results = << <<>>, <<>> >>
    /\ warn_diff_meters = WARN_COORD_DIFF_METERS
    /\ doubt_diff_meters = DOUBT_COORD_DIFF_METERS
    /\ idx = 1
    /\ queries = <<>>
    /\ qi = 1
    /\ attempt = 0
    /\ gets = 0
    /\ seen_candidates = {}
    /\ scored = <<>>
    /\ returned = {}
    /\ nominatim = None
    /\ features = <<>>
    /\ report_entries = <<>>
    /\ unresolved = <<>>
    /\ doubtful = <<>>
    /\ xlsx = None
    /\ strict = FALSE
    /\ written = <<>>
    /\ exit_code = None
    /\ sinceA = ClockCap
    /\ sinceB = ClockCap

QuerySpec == QueryInit /\ [][BuildQueries]_vars

(***************************************************************************)
(* request_json on its own: one call, whatever the server answers          *)
(***************************************************************************)
\* one pass of the for loop: a GET and what follows from the response, or,
\* the attempts used up, `return None`
RequestJson ==
    /\ pc = "request"
    /\ IF RetriesExhausted(attempt)
       THEN /\ pc' = "no_result"
            /\ UNCHANGED <<attempt, gets, qi, queries, results>>
       ELSE \/ /\ pc' = "json"
               /\ gets' = gets + 1
               /\ UNCHANGED <<attempt, qi, queries, results>>
            \/ \E failure \in Failures :
                 /\ FailedAttempt
                 /\ results' = Append(results,
                        [failure |-> failure, attempt |-> attempt,
                         seconds |-> RetryWait(failure, attempt)])
    /\ UNCHANGED <<inputs, idx, seen_candidates, scored, returned, geonorge, nominatim,
                   lists, xlsx, strict, written, exit_code, values, sinceA, sinceB>>

RequestInit ==
    /\ pc = "request"
    /\ values = <<>>
    /\ results = <<>>
    /\ PipelineIdle

RequestSpec == RequestInit /\ [][RequestJson]_vars

(***************************************************************************)
(* Vocabulary of the properties                                            *)
(***************************************************************************)
\* a failed attempt was answered 429 without a Retry-After header that
\* float() accepts
DefaultWait(entry) ==
    entry.failure.kind = "429" /\ entry.failure.retry_after.k # "num"

\* the loop body of row idx - 1 has ended; geonorge and nominatim keep that
\* row's results until the calls for the next row return
RowDone == idx > 1 /\ pc \in {"A_get", "A_finish", "done"}

LastRow == rows[idx - 1]

Last(list) == list[Len(list)]

\* the newest item of one of the four lists belongs to LastRow
LastIn(list) == list # <<>> /\ Last(list).source_row = LastRow.source_row

\* how many items of a list belong to a row
Occurrences(list, row) ==
    Cardinality({ k \in 1..Len(list) : list[k].source_row = row.source_row })

BothFound == geonorge # None /\ nominatim # None

\* distance between the two providers' points of LastRow, in units of 0.5 m
Distance == haversine_meters(geonorge[1].coordinates, nominatim[1].coordinates)

\* the warnings recorded for LastRow
LastWarnings ==
    IF LastIn(unresolved) THEN Last(unresolved).warnings
    ELSE Last(report_entries).warnings

\* the coordinate_diff_gt_* tags of a warnings list, in order
DistanceTags(warnings) ==
    SelectSeq(warnings, LAMBDA tag : tag[1] = "coordinate_diff_gt_")

\* the feature of LastRow carries the point coords and the three fields
LastFeatureIs(coords, adresse, postnummer, poststed) ==
    /\ LastIn(report_entries)
    /\ Len(features) = Len(report_entries)
    /\ Last(features).properties.navn = LastRow.navn
    /\ Last(features).geometry.coordinates = coords
    /\ Last(features).properties.adresse = adresse
    /\ Last(features).properties.postnummer = postnummer
    /\ Last(features).properties.poststed = poststed

\* a verified field of Provider A, or the row's input where it is empty
VerifiedOrInput(verified, input) == IF verified # <<>> THEN verified ELSE input

\* both thresholds at their defaults and the providers 3000 m apart
DefaultsApart3000 ==
    /\ warn_diff_meters = 1000
    /\ doubt_diff_meters = 4000
    /\ Distance = 6000

\* the data rows of the input file, line k + 1 of the sheet being DataRows[k]
DataRows == IF xlsx = None \/ xlsx[1] = <<>> THEN <<>> ELSE Tail(xlsx[1])

\* a cell is empty once its white space is trimmed
CellBlank(cell) == \A i \in 1..Len(cell) : IsSpace(cell[i])

\* one of the five required cells of a data row is empty
HasEmptyField(raw) == \E c \in 1..5 : c > Len(raw) \/ CellBlank(raw[c])

\* the address cell holds nothing but commas
AddressOnlyCommas(raw) ==
    \A i \in 1..Len(normalize_text(raw[3])) : normalize_text(raw[3])[i] = ","

\* the input file was read without an error
ReadDone == pc # "run" /\ xlsx # None /\ ~SheetRaises[xlsx[1]]

\* the row loop has run to its end
LoopDone == pc \in {"done", "write_report", "returned"}

\* line is the source_row of a row handed to the pipeline
InRows(line) == \E i \in 1..Len(rows) : rows[i].source_row = line

\* how many items of a list stem from a line of the sheet
OfLine(list, line) == Cardinality({ i \in 1..Len(list) : list[i].source_row = line })

\* a request for the row of this line is about to be sent
Requesting(line) == pc \in {"A_get", "B_get"} /\ rows[idx].source_row = line

\* the line is in no list and no request is being made for it; a feature
\* carries no line number, it stands at the place of its report entry
KeptOut(line) ==
    /\ ~InRows(line)
    /\ ~Requesting(line)
    /\ OfLine(report_entries, line) = 0
    /\ OfLine(unresolved, line) = 0
    /\ OfLine(doubtful, line) = 0
    /\ Len(features) = Len(report_entries)

\* the line is handed to the pipeline, and judged once the loop is done
Processed(line) ==
    /\ InRows(line)
    /\ LoopDone => OfLine(report_entries, line) + OfLine(unresolved, line) = 1

\* the data rows that were not handed to the pipeline
ExcludedCount == Cardinality({ k \in 1..Len(DataRows) : ~InRows(k + 1) })

\* both files are written; the second is the report
BothWritten ==
    /\ Len(written) = 2
    /\ written[1].path = "output"
    /\ written[2].path = "report"

\* a string of exactly four digits
FourDigits(text) == Len(text) = 4 /\ \A i \in 1..Len(text) : IsDigit(text[i])

\* for some required column no cell of the header holds all of its terms
\* (for each header of the model, evaluated once)
LacksColumn ==
    [h \in Headers |->
        \E f \in DOMAIN ColumnTerms :
            \A c \in 1..Len(h) :
                ~HasAllTerms(normalize_for_compare(h[c]), ColumnTerms[f])]

HeaderLacksColumn == xlsx # None /\ xlsx[1] # <<>> /\ LacksColumn[xlsx[1][1]]

\* the line numbers of the items of a list, in order
LinesOf(list) == [k \in 1..Len(list) |-> list[k].source_row]

\* the line numbers of the rows processed so far that are not unresolved
ResolvedLines ==
    SelectSeq([k \in 1..(idx - 1) |-> rows[k].source_row],
              LAMBDA line : OfLine(unresolved, line) = 0)

\* list b is list a with items appended
Extends(a, b) == Len(a) <= Len(b) /\ SubSeq(b, 1, Len(a)) = a

\* run has ended before the row loop did: it returned 1, or an exception
\* left it
AbortedEarly ==
    \/ exit_code = Some(1)
    \/ pc = "raised" /\ (rows = <<>> \/ idx <= Len(rows))

\* the unrounded score of a candidate for the row being processed
ScoreFor(candidate) == ScoreTable[candidate, rows[idx]].score

\* geocode_geonorge returns in this step: its query loop is over and
\* nothing is raised
GeonorgeReturns == pc = "A_finish" /\ pc' # "raised"

\* among the scored candidates one has the best score, another the best
\* score of the rest, and the two scores are less than 0.75 apart
CloseRunnerUp(list) ==
    \E i \in 1..Len(list) : \E j \in 1..Len(list) :
        /\ i # j
        /\ \A k \in 1..Len(list) : FracGeq(list[i].score, list[k].score)
        /\ \A k \in 1..Len(list) : k # i => FracGeq(list[j].score, list[k].score)
        /\ FracLess(FracSub(list[i].score, list[j].score), <<3, 4>>)

\* one of the scored candidates has a score of 9.5 or more
NearCertain(list) ==
    \E k \in 1..Len(list) : 2 * list[k].score[1] >= 19 * list[k].score[2]

\* no two entries of a list are equal ignoring case
NoCaseDuplicates(list) ==
    \A i \in 1..Len(list) : \A j \in 1..Len(list) :
        lower(list[i]) = lower(list[j]) => i = j

\* the queries in the order they are generated: per address variant, for
\* Provider A the four of GeonorgeQuad, for Provider B the two of
\* NominatimPair after the seeded ones
RECURSIVE GeneratedA(_, _)
GeneratedA(variants, row) ==
    IF variants = <<>> THEN <<>>
    ELSE GeonorgeQuad(Head(variants), row, hovedkommune(row))
         \o GeneratedA(Tail(variants), row)

RECURSIVE GeneratedPairs(_, _)
GeneratedPairs(variants, row) ==
    IF variants = <<>> THEN <<>>
    ELSE NominatimPair(Head(variants), row, hovedkommune(row))
         \o GeneratedPairs(Tail(variants), row)

GeneratedB(row, match) ==
    (IF match = None THEN <<>>
     ELSE SeededQueries(match[1].address,
                        match[1].postnummer \o <<" ">> \o match[1].poststed,
                        match[1].poststed, hovedkommune(row)))
    \o GeneratedPairs(address_variants(row.adresse), row)

\* where an entry is generated first, ignoring case; 0 when nowhere
FirstAt(entry, generated) ==
    LET at == { k \in 1..Len(generated) :
                  lower(normalize_text(generated[k])) = lower(entry) }
    IN  IF at = {} THEN 0 ELSE CHOOSE k \in at : \A m \in at : k <= m

\* every entry was generated, and the entries stand in the order in which
\* they were generated first
InGenerationOrder(list, generated) ==
    /\ \A i \in 1..Len(list) : FirstAt(list[i], generated) > 0
    /\ \A i \in 1..Len(list) : \A j \in 1..Len(list) :
          i < j => FirstAt(list[i], generated) < FirstAt(list[j], generated)

(***************************************************************************)
(* Properties                                                              *)
(***************************************************************************)
\* C1: every processed row is in exactly one of the classes Unresolved,
\* Resolved-High and Resolved-Doubtful, and the number of unresolved rows
\* plus the number of features is the number of rows processed: all valid
\* rows once the loop is done.
C1_ExactlyOneClass ==
    /\ Len(unresolved) + Len(features) = idx - 1
    /\ pc = "done" => Len(unresolved) + Len(features) = Len(rows)
    /\ Len(report_entries) = Len(features)
    /\ \A k \in 1..(idx - 1) :
          /\ Occurrences(unresolved, rows[k]) + Occurrences(report_entries, rows[k]) = 1
          /\ Occurrences(doubtful, rows[k]) <= Occurrences(report_entries, rows[k])

\* a run of two rows has ended with one row unresolved and one doubtful
C1_Witness ==
    /\ pc = "done"
    /\ Len(rows) = 2
    /\ Len(unresolved) = 1
    /\ Len(doubtful) = 1

\* C2: for every pair of thresholds, a resolved row is in the doubtful list
\* if and only if both providers answered and their distance exceeds the
\* configured doubt threshold, or Provider A's confidence is low.
C2_DoubtfulIffConfigured ==
    (RowDone /\ LastIn(report_entries)) =>
        (LastIn(doubtful) <=>
            \/ (BothFound /\ Distance > doubt_diff_meters)
            \/ (geonorge # None /\ geonorge[1].confidence = "low"))

\* C3 as stated: a row only Provider B resolved is in the doubtful list and
\* carries missing_geonorge_match.
C3_MissingGeonorgeIsDoubtful ==
    (RowDone /\ geonorge = None /\ nominatim # None) =>
        /\ LastIn(report_entries)
        /\ HasTag(Last(report_entries).warnings, MissingGeonorgeTag)
        /\ LastIn(doubtful)

\* C3, amended: a row only Provider B resolved gets a feature and carries
\* missing_geonorge_match, and it is not in the doubtful list.
C3_MissingGeonorgeIsResolvedHigh ==
    (RowDone /\ geonorge = None /\ nominatim # None) =>
        /\ LastIn(report_entries)
        /\ HasTag(Last(report_entries).warnings, MissingGeonorgeTag)
        /\ ~LastIn(doubtful)

\* Provider A was asked for the row and gave nothing, Provider B a point
C3_Witness ==
    /\ RowDone
    /\ GeonorgeQueries[LastRow] # <<>>
    /\ geonorge = None
    /\ nominatim # None
    /\ LastIn(report_entries)

\* C4 as stated: when Provider A produced a result the feature carries
\* Provider A's coordinates and Provider A's verified address, postal code
\* and city.
C4_GeonorgeFieldsEmitted ==
    (RowDone /\ geonorge # None) =>
        LastFeatureIs(geonorge[1].coordinates, geonorge[1].address,
                      geonorge[1].postnummer, geonorge[1].poststed)

\* C4, amended: when Provider A produced a result the feature carries
\* Provider A's coordinates, and each of address, postal code and city is
\* Provider A's verified field where that is not empty and the row's input
\* field where it is.
C4_GeonorgeFieldsOrInput ==
    (RowDone /\ geonorge # None) =>
        LastFeatureIs(geonorge[1].coordinates,
                      VerifiedOrInput(geonorge[1].address, LastRow.adresse),
                      VerifiedOrInput(geonorge[1].postnummer, LastRow.postnummer),
                      VerifiedOrInput(geonorge[1].poststed, LastRow.poststed))

\* both providers answered and Provider A's verified address is neither
\* empty nor the row's input
C4_Witness ==
    /\ RowDone
    /\ BothFound
    /\ geonorge[1].address # <<>>
    /\ geonorge[1].address # LastRow.adresse
    /\ Last(features).properties.adresse = geonorge[1].address

\* C5: when only Provider B produced a result the feature carries Provider
\* B's point and the row's input address, postal code and city.
C5_NominatimPointInputFields ==
    (RowDone /\ geonorge = None /\ nominatim # None) =>
        LastFeatureIs(nominatim[1].coordinates, LastRow.adresse,
                      LastRow.postnummer, LastRow.poststed)

\* only Provider B answered, with a display name that is not the row's
\* address, and the feature is at its point
C5_Witness ==
    /\ RowDone
    /\ geonorge = None
    /\ nominatim # None
    /\ nominatim[1].display_name # <<>>
    /\ nominatim[1].display_name # LastRow.adresse
    /\ features # <<>>
    /\ Last(features).geometry.coordinates = nominatim[1].coordinates

\* C6: a row is unresolved, without a feature, if and only if neither
\* provider produced a result; every feature belongs to exactly one row,
\* and that row is not unresolved.
C6_UnresolvedIffNeither ==
    /\ RowDone =>
          /\ LastIn(unresolved) <=> (geonorge = None /\ nominatim = None)
          /\ LastIn(report_entries) <=> ~LastIn(unresolved)
    /\ Len(features) = Len(report_entries)
    /\ \A k \in 1..Len(report_entries) :
          /\ features[k].properties.navn = report_entries[k].navn
          /\ \A j \in 1..Len(report_entries) :
                report_entries[j].source_row = report_entries[k].source_row => j = k
          /\ \A j \in 1..Len(unresolved) :
                unresolved[j].source_row # report_entries[k].source_row

\* both providers were asked for the row and neither gave a result
C6_Witness ==
    /\ RowDone
    /\ GeonorgeQueries[LastRow] # <<>>
    /\ NominatimQueriesNoMatch[LastRow] # <<>>
    /\ geonorge = None
    /\ nominatim = None
    /\ LastIn(unresolved)

C8_NoResponseAborts == pc # "raised"

\* C9: one request_json call issues at most 5 GETs, every kind of failure
\* counting as one; after five failures it returns None: the query adds
\* nothing, nothing is raised, and the query loop goes on.
C9_AtMostFiveGets ==
    /\ [](gets <= 5)
    /\ [][(gets = 5 /\ pc \in {"A_get", "B_get"}) =>
            /\ pc' \in {"A_get", "A_finish", "B_get", "reconcile"}
            /\ qi' = qi + 1
            /\ scored' = scored
            /\ geonorge' = geonorge
            /\ (pc' = "reconcile" => nominatim' = None)]_vars

\* five GETs of the last query to Provider B have failed
C9_Witness ==
    /\ pc = "B_get"
    /\ qi = Len(queries)
    /\ gets = 5

\* C10: whenever a request is about to go to Provider B, at least one second
\* (100 units) has passed since the previous one was sent.
C10_OneSecondBetweenRequests ==
    (pc = "B_get" /\ attempt < MaxAttempts) => sinceB >= 100

\* C11: whenever a request is about to go to Provider A, at least the
\* Provider A minimum delay (0.05 s) has passed since the previous request to
\* Provider A was sent, whatever that request returned.
C11_GeonorgeDelayBetweenRequests ==
    (pc = "A_get" /\ attempt < MaxAttempts) => sinceA >= GEONORGE_DELAY_SECONDS

\* C12 as stated: a data row with an empty required field is kept out of
\* the pipeline (no request, in none of the lists), and every data row whose
\* five fields are all non-empty is processed.
C12_EmptyFieldExcluded ==
    ReadDone =>
        \A k \in 1..Len(DataRows) :
            IF HasEmptyField(DataRows[k]) THEN KeptOut(k + 1) ELSE Processed(k + 1)

\* C12, amended: a data row is kept out of the pipeline when a required
\* field is empty or its address holds nothing but commas; every other data
\* row is processed.
C12_EmptyOrCommaAddressExcluded ==
    ReadDone =>
        \A k \in 1..Len(DataRows) :
            IF HasEmptyField(DataRows[k]) \/ AddressOnlyCommas(DataRows[k])
            THEN KeptOut(k + 1)
            ELSE Processed(k + 1)

\* a run over a row without postal code followed by a complete row has ended
C12_Witness ==
    /\ pc = "returned"
    /\ Len(DataRows) = 2
    /\ HasEmptyField(DataRows[1])
    /\ ~HasEmptyField(DataRows[2])
    /\ OfLine(report_entries, 3) = 1

\* C13: in the summary of the written report, total_input_rows exceeds
\* features_written + unresolved_count + doubtful_count by exactly the number
\* of data rows that were excluded.
C13_TotalExceedsByExcluded ==
    BothWritten =>
        written[2].data.summary.total_input_rows
            - (written[2].data.summary.features_written
               + written[2].data.summary.unresolved_count
               + written[2].data.summary.doubtful_count)
        = ExcludedCount

\* C14: every row handed to the pipeline has a postal code of exactly four
\* digits.
C14_PostnummerFourDigits ==
    \A i \in 1..Len(rows) : FourDigits(rows[i].postnummer)

\* C15: when a required column cannot be located in the header the run
\* aborts: no row is built, no request is issued, nothing is written and run
\* returns nothing.
C15_ColumnNotFoundAborts ==
    HeaderLacksColumn =>
        /\ pc \in {"run", "raised"}
        /\ rows = <<>>
        /\ written = <<>>
        /\ exit_code = None

\* the run has aborted on a sheet that has two data rows and lacks a column
C15_Witness ==
    /\ HeaderLacksColumn
    /\ Len(DataRows) = 2
    /\ pc = "raised"

C17_EntryForEveryRow ==
    LinesOf(report_entries) = [k \in 1..(idx - 1) |-> rows[k].source_row]

\* C17, amended: the entries list holds one entry for every row processed
\* that got a feature, in input order, each with both providers' raw
\* results; an unresolved row has no entry.
C17_EntryForEveryResolvedRow ==
    /\ LinesOf(report_entries) = ResolvedLines
    /\ Len(features) = Len(report_entries)
    /\ \A k \in 1..Len(unresolved) : OfLine(report_entries, unresolved[k].source_row) = 0
    /\ (RowDone /\ LastIn(report_entries)) =>
          /\ Last(report_entries).geonorge = geonorge
          /\ Last(report_entries).nominatim = nominatim
          /\ geonorge # None \/ nominatim # None

\* the first of two rows is unresolved, the second has an entry with the
\* results of both providers
C17_Witness ==
    /\ pc = "done"
    /\ Len(rows) = 2
    /\ LinesOf(unresolved) = <<2>>
    /\ LinesOf(report_entries) = <<3>>
    /\ geonorge # None
    /\ nominatim # None

\* C18: nothing is written before every valid row has been processed, a run
\* that aborts earlier leaves both files untouched, and the four lists and
\* the files written only ever grow at their end.
C18_WrittenOnceAtTheEnd ==
    /\ [](written # <<>> =>
            /\ rows # <<>>
            /\ idx = Len(rows) + 1
            /\ Len(features) + Len(unresolved) = Len(rows))
    /\ [](AbortedEarly => written = <<>>)
    /\ [][/\ Extends(features, features')
          /\ Extends(report_entries, report_entries')
          /\ Extends(unresolved, unresolved')
          /\ Extends(doubtful, doubtful')
          /\ Extends(written, written')]_vars

\* a run of two rows has aborted in the second row, a feature of the first
\* in memory and no file written
C18_Witness ==
    /\ pc = "raised"
    /\ Len(rows) = 2
    /\ idx = 2
    /\ Len(features) = 1
    /\ written = <<>>

\* C19: normalize_for_compare is idempotent: applied to its own result it
\* returns that result.
C19_NormalizeIdempotent ==
    \A k \in 1..Len(values) :
        Len(results[k]) = 2 => results[k][2] = results[k][1]

\* C20: an address whose street name ends in "gt" and the same address
\* written out with "gate" are normalized to the same text.
C20_AbbreviationAndExpansionAgree ==
    (Len(values) = 2 /\ results[1] # <<>> /\ results[2] # <<>>) =>
        results[1][1] = results[2][1]

\* the fractions f and g are the same number
FracEq(f, g) == f[1] * g[2] = g[1] * f[2]

\* C21: the similarity of the scorer is symmetric: with the row's address
\* and the candidate's address swapped, the ratio and the score are the same.
C21_SimilaritySymmetric ==
    (results[1] # <<>> /\ results[2] # <<>>) =>
        /\ FracEq(results[1][1].ratio, results[2][1].ratio)
        /\ FracEq(results[1][1].score, results[2][1].score)

\* C22: the result Provider A's lookup returns for a row has the highest
\* score of all candidates with a point that any response for the row held
\* (scores compared as the result carries them, rounded to three decimals);
\* it returns nothing only when there was no such candidate.
C22_BestOfAllReturned ==
    [][GeonorgeReturns =>
          IF returned = {} THEN geonorge' = None
          ELSE /\ geonorge' # None
               /\ \A c \in returned : Round3(ScoreFor(c)) <= geonorge'[1].score]_vars

\* C23: the ambiguous flag of the result is true if and only if at least
\* two candidates were scored and the best score exceeds the second best by
\* less than 0.75.
C23_AmbiguousIffCloseRunnerUp ==
    [][(GeonorgeReturns /\ geonorge' # None) =>
          (geonorge'[1].ambiguous <=> CloseRunnerUp(scored))]_vars

\* the query loop has ended with two candidates scored exactly 0.75 apart
C23_Witness ==
    /\ pc = "A_finish"
    /\ Len(scored) = 2
    /\ FracEq(FracSub(scored[1].score, scored[2].score), <<3, 4>>)

\* C24: no request goes to Provider A for a row once a candidate scored for
\* it has reached 9.5; while none has, the queries of the list are asked one
\* after the other in list order, and the query loop ends only after the
\* last of them (a run that a response aborts sends no request at all any
\* more).
C24_StopsAtNearCertain ==
    /\ [](pc = "A_get" => ~NearCertain(scored))
    /\ [][(pc = "A_get" /\ pc' = "A_get") =>
             /\ queries' = queries
             /\ idx' = idx
             /\ qi' \in {qi, qi + 1}]_vars
    /\ [][(pc = "A_get" /\ pc' = "A_finish" /\ ~NearCertain(scored')) =>
             qi = Len(queries)]_vars

\* the query loop has ended on a candidate that scores 12, the only one
\* scored
C24_Witness ==
    /\ pc = "A_finish"
    /\ Len(scored) = 1
    /\ NearCertain(scored)

\* C25: after a 429 with a numeric Retry-After header the client sleeps
\* that many seconds; without one the default sleep grows exponentially with
\* the attempt number: of three default sleeps at evenly spaced attempts the
\* later ones are longer, by the same factor each.
C25_RetryAfterOrExponential ==
    /\ \A k \in 1..Len(results) :
          (results[k].failure.kind = "429" /\ results[k].failure.retry_after.k = "num")
              => results[k].seconds = results[k].failure.retry_after.v
    /\ \A i \in 1..Len(results) : \A j \in 1..Len(results) : \A k \in 1..Len(results) :
          (/\ i < j /\ j - i = k - j
           /\ DefaultWait(results[i]) /\ DefaultWait(results[j]) /\ DefaultWait(results[k]))
              => /\ results[j].seconds > results[i].seconds
                 /\ results[j].seconds * results[j].seconds
                        = results[i].seconds * results[k].seconds

\* C26: when Provider A returned a verified address for a row, the first
\* query sent to Provider B for the row is "<verified address>, <Provider
\* A's postal code> <Provider A's city>, Norge".
C26_SeededWithVerifiedAddress ==
    (pc = "B_get" /\ geonorge # None /\ geonorge[1].address # <<>>) =>
        queries[1] = JoinParts(<< geonorge[1].address,
                                  geonorge[1].postnummer \o <<" ">> \o geonorge[1].poststed,
                                  Norge >>)

\* C27: the query list for Provider A has at most 20 entries and the one
\* for Provider B at most 12; neither holds two entries that are equal
\* ignoring case, and the entries stand in the order in which they were
\* generated first (per address variant: with postal code and city, with the
\* city, with the municipality, with the country).
C27_QueryListsCappedAndOrdered ==
    /\ results[1] # <<>> =>
          /\ Len(results[1][1]) <= 20
          /\ NoCaseDuplicates(results[1][1])
          /\ InGenerationOrder(results[1][1],
                               GeneratedA(address_variants(rows[1].adresse), rows[1]))
    /\ results[2] # <<>> =>
          /\ Len(results[2][1]) <= 12
          /\ NoCaseDuplicates(results[2][1])
          /\ InGenerationOrder(results[2][1], GeneratedB(rows[1], geonorge))

\* both lists are full, and the row's variants and the seed yield more than
\* 12 distinct queries for Provider B
C27_Witness ==
    /\ pc = "queries"
    /\ results[1] # <<>>
    /\ results[2] # <<>>
    /\ Len(results[1][1]) = 20
    /\ Len(results[2][1]) = 12
    /\ Len(dedupe_keep_order(GeneratedB(rows[1], geonorge))) > 12

\* a GET is issued by the step: the coroutine stands in request_json with
\* an attempt left
IssuesGet == pc \in {"A_get", "B_get"} /\ ~RetriesExhausted(attempt)

\* C28: the coroutine stands at one place; the row changes only to the
\* next one and only past Provider B's querying for the row; Provider B's
\* querying for a row begins only at the end of Provider A's for that row,
\* and Provider A's only when the row before is done; a step issues at most
\* one GET, to the provider at which the coroutine stands, and only a step
\* that issues one counts one.
C28_RowsAndProvidersInTurn ==
    /\ [](pc \in {"A_get", "A_finish", "B_get", "reconcile", "done", "raised"})
    /\ [][idx' # idx => (pc = "reconcile" /\ idx' = idx + 1)]_vars
    /\ [][(pc' = "B_get" /\ pc # "B_get") => (pc = "A_finish" /\ idx' = idx)]_vars
    /\ [][(pc' = "reconcile" /\ pc # "reconcile") =>
             (pc \in {"A_finish", "B_get"} /\ idx' = idx)]_vars
    /\ [][(pc' = "A_get" /\ pc # "A_get") => pc = "reconcile"]_vars
    /\ [][(pc' = "A_finish" /\ pc # "A_finish") => pc \in {"A_get", "reconcile"}]_vars
    /\ [][gets' \in {0, gets, gets + 1}]_vars
    /\ [][gets' = gets + 1 => (IssuesGet /\ pc' = pc /\ idx' = idx)]_vars

\* the second row's request to Provider B is being retried, the first row
\* having been recorded
C28_Witness ==
    /\ idx = 2
    /\ pc = "B_get"
    /\ gets >= 1
    /\ Len(report_entries) + Len(unresolved) = 1

\* no tag stands twice in the list
NoRepeatedTag(warnings) ==
    \A i \in 1..Len(warnings) : \A j \in 1..Len(warnings) :
        warnings[i] = warnings[j] => i = j

\* C29: in no warnings list recorded for a row (in the report's entries,
\* its unresolved list or its doubtful list) does a tag occur more than
\* once.
C29_WarningsHoldNoTagTwice ==
    /\ \A k \in 1..Len(report_entries) : NoRepeatedTag(report_entries[k].warnings)
    /\ \A k \in 1..Len(unresolved) : NoRepeatedTag(unresolved[k].warnings)
    /\ \A k \in 1..Len(doubtful) : NoRepeatedTag(doubtful[k].warnings)

\* the positions of the report entries written for the input row source_row
EntriesOf(source_row) ==
    { k \in 1..Len(report_entries) : report_entries[k].source_row = source_row }

\* C30: where the coroutine can be seen (before a request, at its end),
\* every row in the doubtful list has exactly one report entry, written
\* together with the one feature that carries the row's name and selected
\* address, and has no item in the unresolved list; the features are as many
\* as the report entries, so the doubtful list is no longer than the
\* feature list.
C30_DoubtfulRowsHaveOneFeature ==
    /\ Len(features) = Len(report_entries)
    /\ Len(doubtful) <= Len(features)
    /\ \A d \in 1..Len(doubtful) :
          /\ Cardinality(EntriesOf(doubtful[d].source_row)) = 1
          /\ \A k \in EntriesOf(doubtful[d].source_row) :
                /\ features[k].properties.navn = doubtful[d].navn
                /\ features[k].properties.adresse = report_entries[k].selected.adresse
                /\ features[k].geometry.coordinates
                       = report_entries[k].selected.coordinates
                /\ report_entries[k].warnings = doubtful[d].warnings
          /\ \A u \in 1..Len(unresolved) :
                unresolved[u].source_row # doubtful[d].source_row
          /\ \A e \in 1..Len(doubtful) :
                doubtful[e].source_row = doubtful[d].source_row => e = d

\* the rows are done: one is doubtful and has its feature, the other is
\* unresolved
C30_Witness ==
    /\ pc = "done"
    /\ Len(doubtful) = 1
    /\ Len(features) = 1
    /\ Len(unresolved) = 1

====
